---- MODULE Spec2Model ----
(***************************************************************************)
(* A model of ParselTongue's task layer.                                   *)
(*                                                                         *)
(*  - Proxy/Task.py: the supervisor of externally executed programs, each  *)
(*    attached to a pseudo-terminal (spawn, finished, messages, feed,      *)
(*    wait, abort), together with the part of the operating system these   *)
(*    calls act on (descriptor table, child processes, terminals).         *)
(*  - Task.py: the validated parameter store (Task._validateattr,          *)
(*    Task.__setattr__, List.__setitem__).                                 *)
(***************************************************************************)
EXTENDS Integers, Sequences, FiniteSets, TLC

(***************************************************************************)
(* Bounds of the model.                                                    *)
(***************************************************************************)
\* Number of programs spawned in one run (process ids 1..MaxSpawn).
MaxSpawn == 1
\* Descriptor numbers the operating system hands out for terminals.
MaxTid == 1
\* Unread lines a terminal buffers.
MaxOut == 1

Pids == 1..MaxSpawn
Tids == 1..MaxTid

\* Signals abort is called with (signal.SIGINT is the default).
Signals == {"SIGINT", "SIGKILL"}

\* Output that is no UTF-8 text: the byte b"\xff", or the first bytes of a
\* character that the end of a 2048-byte read cuts off.
Undecodable == "\\xff"

\* The lines a program writes to its terminal: the terminal holds "hi" as
\* the bytes b"hi\r\n".
Chunks == {"hi", Undecodable}

\* The lines fed to a program: banana.encode() is UTF-8 text.
Bananas == {"hi"}

VARIABLES
    _pid,        \* Task._pid: task id -> process id, or 0 once reaped
    fdOpen,      \* supervisor's open terminal descriptors: tid -> pid whose terminal it is
    child,       \* per process id: the child process
    outq,        \* per process id: the unread lines of its terminal, oldest first
    slave,       \* per process id: whether the child's side of the terminal is open
    fed,         \* per process id: the lines written to its terminal by feed that the
                 \* line discipline has not processed yet, oldest first
    echo,        \* per process id: the ECHO flag of its terminal
    supervisor,  \* "alive" | "dead"
    ptyEnd,      \* how a read of a hung-up terminal ends on this platform: "error" | "eof"
    plast        \* the last call of the Task API and how it ended

pvars == <<_pid, fdOpen, child, outq, slave, fed, echo, supervisor, ptyEnd, plast>>

VARIABLES
    store,       \* the task's attributes: canonical name -> value
    plain,       \* the list attributes that are still the list of the class
    unchecked,   \* the number of writes made to the lists without validation
    last         \* the last access to an attribute of the task and its outcome

tvars == <<store, plain, unchecked, last>>

VARIABLES
    invoked,     \* the calls the server's target objects have received
    dlast        \* the last request dispatched by the server and its outcome

dvars == <<invoked, dlast>>

VARIABLES
    objs,        \* the data objects the program holds, by the variable bound to each
    descs,       \* the descriptors (_AIPSDataDesc) on the heap
    alast        \* the last operation on a data object and its outcome

avars == <<objs, descs, alast>>

VARIABLES
    catalogue,   \* the AIPS catalogue of the disk: the slots (cno) that hold an entry
    _cat,        \* AIPSCat._cat[disk]: the entries the AIPSCat object was built from
    zlast        \* the last operation on the catalogue and its outcome

cvars == <<catalogue, _cat, zlast>>

VARIABLES
    vslice,      \* the visibility slice taken last: the bounds asked for and its _ranges list
    viter,       \* the iterator over the slice: _first, _count, _index, _range, _ranges
    uv,          \* the uv data set in the backend: opened or not, read position and buffer
    yielded,     \* the indices of the visibilities the iterator has returned
    vis          \* the accesses made besides the iteration: their number, and the
                 \* index and outcome of the data[index] made last

wvars == <<vslice, viter, uv, yielded, vis>>

VARIABLES
    bound,       \* the attribute of a data object the program has fetched and holds
    pcalls,      \* the number of calls the proxy has received
    mlast        \* the last call through a data object and its outcome

mvars == <<bound, pcalls, mlast>>

VARIABLES
    table,       \* the rows of the extension table in the backend
    isErr,       \* the table's error object (self._err) holds an error
    tablerow,    \* the row object made last, by table[key] or iter(table)
    xlast        \* the last access to a row of the table and its outcome

xvars == <<table, isErr, tablerow, xlast>>

vars == <<pvars, tvars, dvars, avars, cvars, wvars, mvars, xvars>>

\* What a step of one component leaves alone: the other components.
besidesProc == <<tvars, dvars, avars, cvars, wvars, mvars, xvars>>
besidesTask == <<pvars, dvars, avars, cvars, wvars, mvars, xvars>>
besidesDispatch == <<pvars, tvars, avars, cvars, wvars, mvars, xvars>>
besidesData == <<pvars, tvars, dvars, cvars, wvars, mvars, xvars>>
besidesCat == <<pvars, tvars, dvars, avars, wvars, mvars, xvars>>
besidesVis == <<pvars, tvars, dvars, avars, cvars, mvars, xvars>>
besidesMethod == <<pvars, tvars, dvars, avars, cvars, wvars, xvars>>
besidesTable == <<pvars, tvars, dvars, avars, cvars, wvars, mvars>>

\* A child: pc is "unborn" | "forked" (in spawn's pid == 0 branch) | "running"
\* (the target program) | "zombie" (terminated, not reaped) | "reaped" |
\* "orphan" (its record and its terminal are gone: whether it still runs or
\* has terminated, no call of the supervisor can reach or reap it any more);
\* status is how a zombie ended: "exit1" is os._exit(1) of spawn's finally
\* clause, "exited" the program's own exit, "signaled" death by a signal.
Unborn == [pc |-> "unborn", pathOk |-> FALSE, status |-> "none"]

NoCall == [op |-> "none", tid |-> 0, err |-> "none", fin |-> FALSE, msgs |-> <<>>,
           kill |-> "none"]

Call(op, tid, err) == [NoCall EXCEPT !.op = op, !.tid = tid, !.err = err]

\* dict item assignment and deletion
DictSet(d, k, v) == [x \in DOMAIN d \cup {k} |-> IF x = k THEN v ELSE d[x]]
DictDel(d, k) == [x \in DOMAIN d \ {k} |-> d[x]]

PInit ==
    /\ _pid = <<>>
    /\ fdOpen = <<>>
    /\ child = [p \in Pids |-> Unborn]
    /\ outq = [p \in Pids |-> <<>>]
    /\ slave = [p \in Pids |-> FALSE]
    /\ fed = [p \in Pids |-> <<>>]
    /\ echo = [p \in Pids |-> TRUE]
    /\ supervisor = "alive"
    /\ ptyEnd \in {"error", "eof"}
    /\ plast = NoCall

(***************************************************************************)
(* Task.spawn: pty.fork(); the parent sets the descriptor non-blocking,    *)
(* records the process id and returns the descriptor.  The child's side    *)
(* (exec, or os._exit(1) in the finally clause) is ChildExec below.        *)
(* path is modelled by whether it can be executed; os.execve and os.execv  *)
(* differ only in the environment the program is given.                    *)
(***************************************************************************)
\* The descriptor pty.fork returns: the lowest-numbered one not open.
FreeTid == CHOOSE t \in Tids \ DOMAIN fdOpen : \A u \in Tids \ DOMAIN fdOpen : t <= u

\* The process id fork returns to the parent.
FreePid == CHOOSE p \in Pids : child[p].pc = "unborn" /\ \A q \in Pids : q < p => child[q].pc # "unborn"

Spawn(pathOk) ==
    /\ supervisor = "alive"
    /\ Tids \ DOMAIN fdOpen # {}
    /\ \E p \in Pids : child[p].pc = "unborn"
    /\ child' = [child EXCEPT ![FreePid] = [pc |-> "forked", pathOk |-> pathOk, status |-> "none"]]
    /\ slave' = [slave EXCEPT ![FreePid] = TRUE]
    /\ fdOpen' = DictSet(fdOpen, FreeTid, FreePid)
    /\ _pid' = DictSet(_pid, FreeTid, FreePid)
    /\ plast' = Call("spawn", FreeTid, "none")
    /\ UNCHANGED <<outq, fed, echo, supervisor, ptyEnd>>

\* (mutant) the exec's failure is not followed by os._exit(1): the child
\* carries on in the supervisor's code.
ChildAfterForkNoExit(c) ==
    IF c.pathOk
    THEN [pc |-> "running", pathOk |-> TRUE, status |-> "none"]
    ELSE [pc |-> "returned", pathOk |-> FALSE, status |-> "none"]

\* The child after the fork, the pid == 0 branch of spawn: the exec replaces
\* the process image; if it raises, the finally clause calls os._exit(1).
ChildAfterFork(c) ==
    IF c.pathOk
    THEN [pc |-> "running", pathOk |-> TRUE, status |-> "none"]
    ELSE [pc |-> "zombie", pathOk |-> FALSE, status |-> "exit1"]

ChildExec(p) ==
    /\ child[p].pc = "forked"
    /\ child' = [child EXCEPT ![p] = ChildAfterFork(child[p])]
    /\ slave' = [slave EXCEPT ![p] = slave[p] /\ ChildAfterFork(child[p]).pc = "running"]
    /\ UNCHANGED <<_pid, fdOpen, outq, fed, echo, supervisor, ptyEnd, plast>>

\* The supervisor's descriptor of p's terminal is open.
MasterOpen(p) == \E t \in DOMAIN fdOpen : fdOpen[t] = p

\* The target program writes a line of output to its terminal.
ChildWrite(p, chunk) ==
    /\ child[p].pc = "running"
    /\ slave[p]
    /\ MasterOpen(p)
    /\ Len(fed[p]) + Len(outq[p]) < MaxOut
    /\ outq' = [outq EXCEPT ![p] = Append(@, chunk)]
    /\ UNCHANGED <<_pid, fdOpen, child, slave, fed, echo, supervisor, ptyEnd, plast>>

\* The target program closes its side of the terminal and keeps running.
ChildCloseTty(p) ==
    /\ child[p].pc = "running"
    /\ slave[p]
    /\ slave' = [slave EXCEPT ![p] = FALSE]
    /\ UNCHANGED <<_pid, fdOpen, child, outq, fed, echo, supervisor, ptyEnd, plast>>

\* The target program switches the ECHO flag of its terminal (tcsetattr on
\* its side); the flag stays as it is when the program has gone.
ChildSetEcho(p, flag) ==
    /\ child[p].pc = "running"
    /\ slave[p]
    /\ MasterOpen(p)
    /\ echo' = [echo EXCEPT ![p] = flag]
    /\ UNCHANGED <<_pid, fdOpen, child, outq, slave, fed, supervisor, ptyEnd, plast>>

\* The child terminates (by itself or by a signal) and awaits reaping.
ChildExit(p, status) ==
    /\ child[p].pc \in {"forked", "running"}
    /\ child[p].pc = "forked" => status = "signaled"
    /\ child' = [child EXCEPT ![p] = [pc |-> "zombie", pathOk |-> FALSE, status |-> status]]
    /\ slave' = [slave EXCEPT ![p] = FALSE]
    /\ UNCHANGED <<_pid, fdOpen, outq, fed, echo, supervisor, ptyEnd, plast>>

\* os.close(tid): the descriptor leaves the table and its terminal is gone
\* (unread output is dropped, the child's side is hung up); a child that
\* has not been reaped is out of the supervisor's reach from here on.
CloseFd(tid) ==
    /\ fdOpen' = DictDel(fdOpen, tid)
    /\ outq' = [outq EXCEPT ![fdOpen[tid]] = <<>>]
    /\ slave' = [slave EXCEPT ![fdOpen[tid]] = FALSE]
    /\ fed' = [fed EXCEPT ![fdOpen[tid]] = <<>>]
    /\ echo' = [echo EXCEPT ![fdOpen[tid]] = TRUE]
    /\ child' = [child EXCEPT ![fdOpen[tid]] =
                    IF @.pc = "reaped" THEN @
                    ELSE [pc |-> "orphan", pathOk |-> FALSE, status |-> "none"]]

(***************************************************************************)
(* Task.finished: return self._pid[tid] == 0                               *)
(***************************************************************************)
FinishedErr(tid) == IF tid \in DOMAIN _pid THEN "none" ELSE "KeyError"

\* (mutant) finished looks at the process itself.
FinishedResultPolling(tid) == _pid[tid] = 0 \/ child[_pid[tid]].pc = "zombie"

FinishedResult(tid) == _pid[tid] = 0

Finished(tid) ==
    /\ supervisor = "alive"
    /\ plast' = [Call("finished", tid, FinishedErr(tid)) EXCEPT
                    !.fin = IF FinishedErr(tid) = "none" THEN FinishedResult(tid) ELSE FALSE]
    /\ UNCHANGED <<_pid, fdOpen, child, outq, slave, fed, echo, supervisor, ptyEnd>>

(***************************************************************************)
(* Task.messages                                                           *)
(***************************************************************************)
\* select.select([tid], [], [], 0.25): the descriptor is readable when
\* output is buffered or the terminal has hung up.
Readable(tid) == outq[fdOpen[tid]] # <<>> \/ ~slave[fdOpen[tid]]

\* bytes.decode() of what os.read(tid, 2048) returned: UnicodeDecodeError when
\* the bytes are no UTF-8 text.
Decode(buffered) ==
    IF \E i \in 1..Len(buffered) : buffered[i] = Undecodable THEN "UnicodeDecodeError"
    ELSE "none"

\* os.read(tid, 2048).decode().split("\r\n") for the lines buffered: all of
\* them, and the empty string after the last "\r\n".
SplitLines(buffered) == buffered \o <<"">>

\* [msg for msg in messages if msg]
NonEmpty(msg) == msg # ""
Lines(chunk) == SelectSeq(chunk, NonEmpty)

\* os.waitpid(pid, os.WNOHANG) in the except clause: "nothing" is the
\* (0, 0) of a child that has not terminated, otherwise the child is reaped
\* and its status returned.  Process id 0 waits for any child of the
\* supervisor's own process group; the children of pty.fork are session
\* leaders, so there is none and the call raises ChildProcessError.
Waitpid(pid) ==
    IF pid = 0 THEN "ChildProcessError"
    ELSE IF child[pid].pc = "zombie" THEN child[pid].status
    ELSE "nothing"

WIFEXITED(status) == status \in {"exit1", "exited"}
\* (mutant) a child killed by a signal is not taken for terminated.
WIFSIGNALEDNever(status) == FALSE

WIFSIGNALED(status) == status = "signaled"

Messages(tid) ==
    /\ supervisor = "alive"
    /\ IF tid \notin DOMAIN fdOpen
       THEN \* select on a closed descriptor
            /\ plast' = Call("messages", tid, "OSError")
            /\ UNCHANGED <<_pid, fdOpen, child, outq, slave, fed, echo, supervisor, ptyEnd>>
       ELSE IF ~Readable(tid)
       THEN /\ plast' = Call("messages", tid, "none")
            /\ UNCHANGED <<_pid, fdOpen, child, outq, slave, fed, echo, supervisor, ptyEnd>>
       ELSE IF outq[fdOpen[tid]] # <<>>
       THEN \* os.read returns what is buffered; decode raises (no handler in
            \* messages catches it) or the non-empty lines are returned
            /\ plast' = IF Decode(outq[fdOpen[tid]]) # "none"
                        THEN Call("messages", tid, Decode(outq[fdOpen[tid]]))
                        ELSE [Call("messages", tid, "none") EXCEPT
                                !.msgs = Lines(SplitLines(outq[fdOpen[tid]]))]
            /\ outq' = [outq EXCEPT ![fdOpen[tid]] = <<>>]
            /\ UNCHANGED <<_pid, fdOpen, child, slave, fed, echo, supervisor, ptyEnd>>
       ELSE IF ptyEnd = "eof"
       THEN \* os.read returns b"": len(messages) == 0, nothing is reaped
            /\ plast' = Call("messages", tid, "none")
            /\ UNCHANGED <<_pid, fdOpen, child, outq, slave, fed, echo, supervisor, ptyEnd>>
       ELSE \* os.read raises OSError: reap without blocking
            LET status == Waitpid(_pid[tid]) IN
            /\ plast' = Call("messages", tid,
                             IF status = "ChildProcessError" THEN status ELSE "none")
            /\ child' = IF status \in {"ChildProcessError", "nothing"} THEN child
                         ELSE [child EXCEPT ![_pid[tid]] = [pc |-> "reaped", pathOk |-> FALSE,
                                                            status |-> "none"]]
            /\ _pid' = IF status \notin {"ChildProcessError", "nothing"}
                           /\ (WIFEXITED(status) \/ WIFSIGNALED(status))
                        THEN [_pid EXCEPT ![tid] = 0]
                        ELSE _pid
            /\ UNCHANGED <<fdOpen, outq, slave, fed, echo, supervisor, ptyEnd>>

(***************************************************************************)
(* Task.feed: os.write(tid, banana.encode())                               *)
(***************************************************************************)
\* The line discipline of the terminal puts what is written to the
\* supervisor's descriptor into that descriptor's own input while the ECHO
\* flag is set, whether or not the child's side is still open.
Echoes(p) == echo[p]

\* feed(tid, banana) for a line banana: the write succeeds on an open
\* descriptor and returns; the terminal processes the line later.
Feed(tid, banana) ==
    /\ supervisor = "alive"
    /\ plast' = Call("feed", tid, IF tid \in DOMAIN fdOpen THEN "none" ELSE "OSError")
    /\ IF tid \in DOMAIN fdOpen
       THEN /\ Len(fed[fdOpen[tid]]) + Len(outq[fdOpen[tid]]) < MaxOut
            /\ fed' = [fed EXCEPT ![fdOpen[tid]] = Append(@, banana)]
       ELSE UNCHANGED fed
    /\ UNCHANGED <<_pid, fdOpen, child, outq, slave, echo, supervisor, ptyEnd>>

\* The terminal processes the oldest line written by feed, at any time after
\* the write (also after calls of messages that found nothing of it): the
\* echo is buffered for the next read with the output of the program.
LineDiscipline(p) ==
    /\ fed[p] # <<>>
    /\ fed' = [fed EXCEPT ![p] = Tail(@)]
    /\ outq' = IF Echoes(p) THEN [outq EXCEPT ![p] = Append(@, Head(fed[p]))] ELSE outq
    /\ UNCHANGED <<_pid, fdOpen, child, slave, echo, supervisor, ptyEnd, plast>>

(***************************************************************************)
(* Task.wait: assert self.finished(tid); del self._pid[tid]; os.close(tid) *)
(***************************************************************************)
\* (mutant) wait without its assertion.
WaitErrNoAssert(tid) == FinishedErr(tid)

WaitErr(tid) ==
    IF FinishedErr(tid) # "none" THEN FinishedErr(tid)
    ELSE IF ~FinishedResult(tid) THEN "AssertionError"
    ELSE "none"

Wait(tid) ==
    /\ supervisor = "alive"
    /\ plast' = Call("wait", tid, WaitErr(tid))
    /\ IF WaitErr(tid) = "none"
       THEN /\ _pid' = DictDel(_pid, tid)
            /\ CloseFd(tid)
       ELSE UNCHANGED <<_pid, fdOpen, outq, slave, fed, echo, child>>
    /\ UNCHANGED <<supervisor, ptyEnd>>

(***************************************************************************)
(* Task.abort: os.kill(self._pid[tid], sig); del self._pid[tid];           *)
(* os.close(tid)                                                           *)
(***************************************************************************)
\* Who os.kill(pid, sig) signals: a positive pid is that process, pid 0 is
\* every process of the caller's own process group, the caller included.
KillTarget(pid) == IF pid = 0 THEN "group" ELSE "child"

\* How the call ends.  When the signal reaches the supervisor itself,
\* SIGINT raises KeyboardInterrupt as os.kill returns and SIGKILL ends it.
AbortErr(tid, sig) ==
    IF tid \notin DOMAIN _pid THEN "KeyError"
    ELSE IF KillTarget(_pid[tid]) = "group"
         THEN (IF sig = "SIGINT" THEN "KeyboardInterrupt" ELSE "killed")
    ELSE "none"

Abort(tid, sig) ==
    /\ supervisor = "alive"
    /\ plast' = [Call("abort", tid, AbortErr(tid, sig)) EXCEPT
                    !.kill = IF tid \in DOMAIN _pid THEN KillTarget(_pid[tid]) ELSE "none"]
    /\ supervisor' = IF AbortErr(tid, sig) = "killed" THEN "dead" ELSE supervisor
    /\ IF AbortErr(tid, sig) = "none"
       THEN /\ _pid' = DictDel(_pid, tid)
            /\ CloseFd(tid)
       ELSE UNCHANGED <<_pid, fdOpen, outq, slave, fed, echo, child>>
    /\ UNCHANGED ptyEnd

PNext ==
    \/ \E pathOk \in BOOLEAN : Spawn(pathOk) /\ UNCHANGED besidesProc
    \/ \E p \in Pids : ChildExec(p) /\ UNCHANGED besidesProc
    \/ \E p \in Pids, chunk \in Chunks : ChildWrite(p, chunk) /\ UNCHANGED besidesProc
    \/ \E p \in Pids : ChildCloseTty(p) /\ UNCHANGED besidesProc
    \/ \E p \in Pids, flag \in BOOLEAN : ChildSetEcho(p, flag) /\ UNCHANGED besidesProc
    \/ \E p \in Pids, status \in {"exited", "signaled"} : ChildExit(p, status) /\ UNCHANGED besidesProc
    \/ \E tid \in Tids : Finished(tid) /\ UNCHANGED besidesProc
    \/ \E tid \in Tids : Messages(tid) /\ UNCHANGED besidesProc
    \/ \E tid \in Tids, banana \in Bananas : Feed(tid, banana) /\ UNCHANGED besidesProc
    \/ \E p \in Pids : LineDiscipline(p) /\ UNCHANGED besidesProc
    \/ \E tid \in Tids : Wait(tid) /\ UNCHANGED besidesProc
    \/ \E tid \in Tids, sig \in Signals : Abort(tid, sig) /\ UNCHANGED besidesProc


(***************************************************************************)
(* Properties of the supervisor (Proxy/Task.py), checked under SpecProc.   *)
(* In an action formula the unprimed variables are the state in which the  *)
(* call is made and the primed ones the state it leaves.                   *)
(***************************************************************************)
Running(tid) == tid \in DOMAIN _pid /\ _pid[tid] # 0
Done(tid) == tid \in DOMAIN _pid /\ _pid[tid] = 0

\* C1 (as claimed): round trip.  spawn returns a recorded task id without
\* error; every messages(tid) called while finished(tid) is false, and every
\* finished(tid) on a recorded id, raises nothing; wait(tid) called once finished(tid) is
\* true raises nothing and leaves no entry for tid and the descriptor closed.
C1_RoundTrip ==
    [][/\ (plast'.op = "spawn" /\ \E ok \in BOOLEAN : Spawn(ok)) =>
            /\ plast'.err = "none"
            /\ plast'.tid \in DOMAIN _pid' /\ _pid'[plast'.tid] # 0
            /\ plast'.tid \in DOMAIN fdOpen'
       /\ \A t \in Tids :
            /\ (plast'.op = "messages" /\ Running(t) /\ Messages(t)) => plast'.err = "none"
            /\ (plast'.op = "finished" /\ t \in DOMAIN _pid /\ Finished(t)) => plast'.err = "none"
            /\ (plast'.op = "wait" /\ Done(t) /\ Wait(t)) =>
                    /\ plast'.err = "none"
                    /\ t \notin DOMAIN _pid'
                    /\ t \notin DOMAIN fdOpen'
      ]_pvars

\* C2 (as claimed): abort(tid) on a recorded id removes the entry and closes
\* the descriptor, and an abort(tid) or wait(tid) that directly follows an
\* abort(tid) fails with KeyError and changes neither table.
C2_AbortRemoves ==
    [][\A t \in Tids, sig \in Signals :
        /\ (plast'.op = "abort" /\ t \in DOMAIN _pid /\ Abort(t, sig)) =>
                (t \notin DOMAIN _pid' /\ t \notin DOMAIN fdOpen')
        /\ (plast.op = "abort" /\ plast.tid = t /\ (Abort(t, sig) \/ Wait(t))) =>
                (plast'.err = "KeyError" /\ _pid' = _pid /\ fdOpen' = fdOpen)
      ]_pvars

\* C3: a wait(tid) that succeeds was called on a finished task, and a
\* wait(tid) on a recorded, unfinished task fails its assertion and leaves
\* the record and the descriptor table as they were.
C3_WaitNeedsFinished ==
    [][\A t \in Tids : (plast'.op = "wait" /\ Wait(t)) =>
        /\ (plast'.err = "none" => Done(t))
        /\ (Running(t) =>
               (plast'.err = "AssertionError" /\ _pid' = _pid /\ fdOpen' = fdOpen))
      ]_pvars

\* C3 witness: wait has just been refused on a task whose program still runs.
C3_Witness ==
    /\ plast.op = "wait" /\ plast.err = "AssertionError"
    /\ Running(plast.tid)
    /\ child[_pid[plast.tid]].pc = "running"
    /\ plast.tid \in DOMAIN fdOpen

\* C4: finished(tid) returns whether the recorded process id is zero and
\* changes nothing (in particular it is false for a terminated, unreaped
\* child); a step that turns a recorded non-zero process id into zero is a
\* messages(tid) call.
C4_FinishedIsPassive ==
    [][\A t \in Tids :
        /\ (plast'.op = "finished" /\ t \in DOMAIN _pid /\ Finished(t)) =>
                /\ plast'.fin = (_pid[t] = 0)
                /\ UNCHANGED <<_pid, fdOpen, child, outq, slave, fed, echo>>
        /\ (Running(t) /\ t \in DOMAIN _pid' /\ _pid'[t] = 0) =>
                (plast'.op = "messages" /\ Messages(t))
      ]_pvars

\* C4 witness: finished has just answered false for a task whose process has
\* already terminated.
C4_Witness ==
    /\ plast.op = "finished" /\ plast.err = "none" /\ ~plast.fin
    /\ Running(plast.tid)
    /\ child[_pid[plast.tid]].pc = "zombie"

\* C5: the forked child becomes the target program or, when the exec fails,
\* a terminated process with os._exit(1)'s status; its step touches neither
\* the supervisor's record nor its descriptors nor its calls.
C5_ChildNeverReturns ==
    [][\A p \in Pids : (child[p].pc = "forked" /\ ChildExec(p)) =>
        /\ child'[p].pc = (IF child[p].pathOk THEN "running" ELSE "zombie")
        /\ (~child[p].pathOk => child'[p].status = "exit1")
        /\ UNCHANGED <<_pid, fdOpen, plast, supervisor>>
      ]_pvars

\* C5 witness: a child whose exec failed has terminated through os._exit(1)
\* while the supervisor holds its record.
C5_Witness ==
    \E t \in DOMAIN _pid :
        /\ _pid[t] # 0
        /\ child[_pid[t]].pc = "zombie"
        /\ child[_pid[t]].status = "exit1"

(***************************************************************************)
(* The parameter store (parseltongue/Task.py).                             *)
(*                                                                         *)
(* A Python value is a record: t is the runtime type, n the number of a    *)
(* bool, int or float (the floats of the model are integral), s the        *)
(* characters of a str and l the elements of a list.                       *)
(***************************************************************************)
\* Number of elements the list attributes are declared with.
ListLen == 3
\* Number of writes a run makes to the lists without validation: index and
\* slice assignments to a list of the class, calls of inherited methods.
MaxUnchecked == 1

PyNone == [t |-> "none", n |-> 0, s |-> "", l |-> <<>>]
PyBool(b) == [t |-> "bool", n |-> (IF b THEN 1 ELSE 0), s |-> "", l |-> <<>>]
PyInt(n) == [t |-> "int", n |-> n, s |-> "", l |-> <<>>]
PyFloat(n) == [t |-> "float", n |-> n, s |-> "", l |-> <<>>]
PyStr(s) == [t |-> "str", n |-> 0, s |-> s, l |-> <<>>]
PyList(l) == [t |-> "list", n |-> 0, s |-> "", l |-> l]

\* isinstance(value, cls) for cls the type of a stored value; bool is a
\* subclass of int.
IsInstance(value, cls) ==
    IF cls = "int" THEN value.t \in {"int", "bool"} ELSE value.t = cls

IsNumber(value) == value.t \in {"bool", "int", "float"}

\* Python's ==.
RECURSIVE PyEq(_, _)
PyEq(a, b) ==
    IF IsNumber(a) /\ IsNumber(b) THEN a.n = b.n
    ELSE IF a.t # b.t THEN FALSE
    ELSE IF a.t = "str" THEN a.s = b.s
    ELSE IF a.t = "list"
         THEN /\ Len(a.l) = Len(b.l)
              /\ \A i \in 1..Len(a.l) : PyEq(a.l[i], b.l[i])
    ELSE TRUE

\* str.startswith
StartsWith(s, prefix) ==
    /\ Len(prefix) <= Len(s)
    /\ SubSeq(s, 1, Len(prefix)) = prefix

\* The class attributes of the task: the declared limits of MyTask.
_min_dict == [inseq |-> 0, aparms |-> 0]
_max_dict == [inseq |-> 4, aparms |-> 10]
_strlen_dict == [infile |-> 14]

\* The outcome of an operation: err is "none" or the exception raised; val
\* is the value returned or, after an exception, the object the operation
\* was writing to in the state the exception leaves it.
Ok(v) == [err |-> "none", val |-> v]
Raise(e, v) == [err |-> e, val |-> v]

\* List.__init__: a new list object with the elements of value, the lists
\* among them wrapped likewise.
RECURSIVE ListInit(_)
ListInit(value) ==
    PyList([i \in 1..Len(value.l) |->
                IF value.l[i].t = "list" THEN ListInit(value.l[i]) ELSE value.l[i]])

\* (mutant) the range checks with < for <=.
ValidateScalarStrict(attr, value, default) ==
    LET v == IF IsInstance(value, "int") /\ default.t = "float"
             THEN PyFloat(value.n) ELSE value
    IN  IF ~IsInstance(v, default.t)
        THEN Raise("TypeError:type", default)
        ELSE IF attr \in DOMAIN _min_dict /\ ~IsNumber(v)
        THEN Raise("TypeError:compare", default)
        ELSE IF attr \in DOMAIN _min_dict /\ ~(_min_dict[attr] < v.n)
        THEN Raise("ValueError:range", default)
        ELSE IF attr \in DOMAIN _max_dict /\ ~IsNumber(v)
        THEN Raise("TypeError:compare", default)
        ELSE IF attr \in DOMAIN _max_dict /\ ~(_max_dict[attr] > v.n)
        THEN Raise("ValueError:range", default)
        ELSE IF attr \in DOMAIN _strlen_dict /\ v.t \notin {"str", "list"}
        THEN Raise("TypeError:len", default)
        ELSE IF attr \in DOMAIN _strlen_dict
                /\ (IF v.t = "str" THEN Len(v.s) ELSE Len(v.l)) > _strlen_dict[attr]
        THEN Raise("ValueError:toolong", default)
        ELSE Ok(v)

\* (mutant) the length check with >= for >.
ValidateScalarLenGe(attr, value, default) ==
    LET v == IF IsInstance(value, "int") /\ default.t = "float"
             THEN PyFloat(value.n) ELSE value
    IN  IF ~IsInstance(v, default.t)
        THEN Raise("TypeError:type", default)
        ELSE IF attr \in DOMAIN _min_dict /\ ~IsNumber(v)
        THEN Raise("TypeError:compare", default)
        ELSE IF attr \in DOMAIN _min_dict /\ ~(_min_dict[attr] <= v.n)
        THEN Raise("ValueError:range", default)
        ELSE IF attr \in DOMAIN _max_dict /\ ~IsNumber(v)
        THEN Raise("TypeError:compare", default)
        ELSE IF attr \in DOMAIN _max_dict /\ ~(_max_dict[attr] >= v.n)
        THEN Raise("ValueError:range", default)
        ELSE IF attr \in DOMAIN _strlen_dict /\ v.t \notin {"str", "list"}
        THEN Raise("TypeError:len", default)
        ELSE IF attr \in DOMAIN _strlen_dict
                /\ (IF v.t = "str" THEN Len(v.s) ELSE Len(v.l)) >= _strlen_dict[attr]
        THEN Raise("ValueError:toolong", default)
        ELSE Ok(v)

\* The checks of Task._validateattr on a value that is not a list.
ValidateScalar(attr, value, default) ==
    LET v == IF IsInstance(value, "int") /\ default.t = "float"
             THEN PyFloat(value.n) ELSE value
    IN  IF ~IsInstance(v, default.t)
        THEN Raise("TypeError:type", default)
        ELSE IF attr \in DOMAIN _min_dict /\ ~IsNumber(v)
        THEN Raise("TypeError:compare", default)
        ELSE IF attr \in DOMAIN _min_dict /\ ~(_min_dict[attr] <= v.n)
        THEN Raise("ValueError:range", default)
        ELSE IF attr \in DOMAIN _max_dict /\ ~IsNumber(v)
        THEN Raise("TypeError:compare", default)
        ELSE IF attr \in DOMAIN _max_dict /\ ~(_max_dict[attr] >= v.n)
        THEN Raise("ValueError:range", default)
        ELSE IF attr \in DOMAIN _strlen_dict /\ v.t \notin {"str", "list"}
        THEN Raise("TypeError:len", default)
        ELSE IF attr \in DOMAIN _strlen_dict
                /\ (IF v.t = "str" THEN Len(v.s) ELSE Len(v.l)) > _strlen_dict[attr]
        THEN Raise("ValueError:toolong", default)
        ELSE Ok(v)

\* The object that was passed to _validateattr as default, after the call
\* has raised with validated the partly written validated_value:
\* validated_value is a list of its own, made by List(self, attr, default),
\* so default has not been written to.
DefaultAfterRaiseAliased(default, validated) == validated

DefaultAfterRaise(default, validated) == default

RECURSIVE _validateattr(_, _, _)
RECURSIVE ValidateItems(_, _, _, _)
RECURSIVE ListSetItem(_, _, _, _)

\* Task._validateattr that copies the list the attribute was declared with
\* where the code copies the list it was given as default.
_validateattrDeclared(attr, value, default) ==
    IF StartsWith(attr, "_") THEN Ok(value)
    ELSE IF value.t = "none" /\ default.t = "none" THEN Ok(value)
    ELSE IF value.t = "list" /\ default.t = "list"
    THEN IF Len(value.l) > Len(default.l)
         THEN Raise("TypeError:toobig", default)
         ELSE ValidateItems(attr, value.l,
                            ListInit(IF Len(default.l) = ListLen
                                     THEN PyList([i \in 1..ListLen |->
                                            IF attr = "aparms" THEN PyFloat(0)
                                            ELSE IF i = 1 THEN PyNone ELSE PyInt(i - 1)])
                                     ELSE default), 0)
    ELSE ValidateScalar(attr, value, default)

\* Task._validateattr(attr, value, default).
_validateattr(attr, value, default) ==
    IF StartsWith(attr, "_") THEN Ok(value)
    ELSE IF value.t = "none" /\ default.t = "none" THEN Ok(value)
    ELSE IF value.t = "list" /\ default.t = "list"
    THEN IF Len(value.l) > Len(default.l)
         THEN Raise("TypeError:toobig", default)
         ELSE ValidateItems(attr, value.l, ListInit(default), 0)
    ELSE ValidateScalar(attr, value, default)

\* The loop of Task._validateattr over the elements of a list value:
\* validated_value[key] = value[key] for key from k on.
ValidateItems(attr, items, validated_value, k) ==
    IF k >= Len(items) THEN Ok(validated_value)
    ELSE LET r == ListSetItem(attr, validated_value, k, items[k + 1])
         IN  IF r.err # "none" THEN r
             ELSE ValidateItems(attr, items, r.val, k + 1)

\* List.__setitem__(key, item) for an integer key, on the list object lst.
ListSetItem(attr, lst, key, item) ==
    LET idx == IF key < 0 THEN key + Len(lst.l) ELSE key
    IN  IF idx < 0 \/ idx >= Len(lst.l)
        THEN Raise("IndexError", lst)
        ELSE IF item.t # "none" /\ lst.l[idx + 1].t = "none"
        THEN Raise("ValueError:prohibited", lst)
        ELSE LET r == _validateattr(attr, item, lst.l[idx + 1])
             IN  IF r.err # "none"
                 THEN Raise(r.err, PyList([lst.l EXCEPT ![idx + 1] =
                                    DefaultAfterRaise(lst.l[idx + 1], r.val)]))
                 ELSE Ok(PyList([lst.l EXCEPT ![idx + 1] = r.val]))

\* slice.indices for a bound of a slice with step 1 on a list of length n.
SliceBound(b, n) ==
    LET c == IF b < 0 THEN b + n ELSE b
    IN  IF c < 0 THEN 0 ELSE IF c > n THEN n ELSE c

Max(a, b) == IF a >= b THEN a ELSE b

\* The elements list takes from an iterable: those of a list, the characters
\* of a string; None and the numbers are not iterable.
Elements(item) ==
    IF item.t = "list" THEN Ok(item.l)
    ELSE IF item.t = "str"
    THEN Ok([i \in 1..Len(item.s) |-> PyStr(SubSeq(item.s, i, i))])
    ELSE Raise("TypeError:iterable", <<>>)

\* List.__setitem__(key, item) for key = slice(start, stop), which is what
\* lst[start:stop] = item calls: self[key] is a new list of the addressed
\* elements, and list.__setitem__ replaces them by the elements of what
\* _validateattr returns: a validated list, or, for a private attribute,
\* the item as it was given, of which list takes the elements.
ListSetSlice(attr, lst, start, stop, item) ==
    LET n == Len(lst.l)
        lo == SliceBound(start, n)
        hi == Max(lo, SliceBound(stop, n))
        r == _validateattr(attr, item, PyList(SubSeq(lst.l, lo + 1, hi)))
        e == Elements(r.val)
    IN  IF r.err # "none" THEN Raise(r.err, lst)
        ELSE IF e.err # "none" THEN Raise(e.err, lst)
        ELSE Ok(PyList(SubSeq(lst.l, 1, lo) \o e.val \o SubSeq(lst.l, hi + 1, n)))

\* Task._default_dict, which Task.__init__ makes empty and MyTask leaves so.
_default_dict == [a \in {} |-> PyNone]

Min(a, b) == IF a <= b THEN a ELSE b

\* The loop of List.__setslice__ from key on: self[key] = ... calls
\* List.__setitem__, which writes to the list itself.
RECURSIVE SetSliceLoop(_, _, _, _, _, _)
SetSliceLoop(attr, lst, low, high, seq, key) ==
    IF key >= high THEN Ok(lst)
    ELSE LET r == IF key - low < Len(seq)
                  THEN ListSetItem(attr, lst, key, seq[key - low + 1])
                  ELSE IF attr \notin DOMAIN _default_dict
                  THEN Raise("KeyError", lst)
                  ELSE IF key + 1 \notin DOMAIN _default_dict[attr].l
                  THEN Raise("IndexError", lst)
                  ELSE ListSetItem(attr, lst, key, _default_dict[attr].l[key + 1])
         IN  IF r.err # "none" THEN r
             ELSE SetSliceLoop(attr, r.val, low, high, seq, key + 1)

\* List.__setslice__(low, high, seq), which a[low:high] = seq called in
\* Python 2; in Python 3 only a call by name reaches it.
__setslice__(attr, lst, low, high, seq) ==
    LET h == Min(high, Len(lst.l))
    IN  IF Len(seq) > h - low \/ (Len(seq) < h - low /\ h < Len(lst.l))
        THEN Raise("TypeError:size", lst)
        ELSE SetSliceLoop(attr, lst, low, h, seq, low)

\* MinimalMatch._findattr(name) on a task with the attributes of st: the one
\* canonical name that starts with name.
_findattr(st, name) ==
    LET matches == {a \in DOMAIN st : StartsWith(a, name)}
    IN  IF Cardinality(matches) = 1
        THEN Ok(CHOOSE a \in matches : TRUE)
        ELSE Raise("AttributeError", name)

\* MinimalMatch.__getattr__(name)
GetAttrResult(st, name) ==
    LET f == _findattr(st, name)
    IN  IF f.err # "none" THEN Raise(f.err, PyNone) ELSE Ok(st[f.val])

\* Task.__setattr__ taking name for the canonical name.
SetAttrResultExact(st, name, value) ==
    IF name \notin DOMAIN st THEN Raise("AttributeError", st)
    ELSE LET r == _validateattr(name, value, st[name])
         IN  IF r.err # "none" THEN Raise(r.err, st)
             ELSE Ok([st EXCEPT ![name] = r.val])

\* Task.__setattr__(name, value) on a task with the attributes st; val is
\* the attributes it leaves.
SetAttrResult(st, name, value) ==
    LET f == _findattr(st, name)
    IN  IF f.err # "none" THEN Raise(f.err, st)
        ELSE LET r == _validateattr(f.val, value, st[f.val])
             IN  IF r.err # "none"
                 THEN Raise(r.err, [st EXCEPT ![f.val] = DefaultAfterRaise(st[f.val], r.val)])
                 ELSE Ok([st EXCEPT ![f.val] = r.val])

\* _validateattr raised after it had written to its validated_value.
Dirty(attr, value, default) ==
    LET r == _validateattr(attr, value, default)
    IN  r.err # "none" /\ r.val # default

\* list.__setitem__(key, item) for an integer key, on a list that is not a
\* List: the item is stored as it is.
PlainSetItem(lst, key, item) ==
    LET idx == IF key < 0 THEN key + Len(lst.l) ELSE key
    IN  IF idx < 0 \/ idx >= Len(lst.l)
        THEN Raise("IndexError", lst)
        ELSE Ok(PyList([lst.l EXCEPT ![idx + 1] = item]))

\* list.__setitem__(slice(start, stop), item) on a list that is not a List:
\* the elements of item take the place of the addressed ones, however many.
PlainSetSlice(lst, start, stop, item) ==
    LET n == Len(lst.l)
        lo == SliceBound(start, n)
        hi == Max(lo, SliceBound(stop, n))
        e == Elements(item)
    IN  IF e.err # "none" THEN Raise(e.err, lst)
        ELSE Ok(PyList(SubSeq(lst.l, 1, lo) \o e.val \o SubSeq(lst.l, hi + 1, n)))

\* The methods List inherits from list as they are: none of them validates,
\* on a List no more than on the list of the class.
\* list.append(item)
append(lst, item) == Ok(PyList(Append(lst.l, item)))

\* list.extend(iterable)
extend(lst, iterable) ==
    LET e == Elements(iterable)
    IN  IF e.err # "none" THEN Raise(e.err, lst) ELSE Ok(PyList(lst.l \o e.val))

\* list.insert(index, item): an index past either end is the end.
insert(lst, index, item) ==
    LET at == SliceBound(index, Len(lst.l))
    IN  Ok(PyList(SubSeq(lst.l, 1, at) \o <<item>> \o SubSeq(lst.l, at + 1, Len(lst.l))))

\* list.__delitem__(key) for an integer key, which is also what
\* list.pop(key) does to the list.
__delitem__(lst, key) ==
    LET idx == IF key < 0 THEN key + Len(lst.l) ELSE key
    IN  IF idx < 0 \/ idx >= Len(lst.l)
        THEN Raise("IndexError", lst)
        ELSE Ok(PyList(SubSeq(lst.l, 1, idx) \o SubSeq(lst.l, idx + 2, Len(lst.l))))

\* list.clear()
clear(lst) == Ok(PyList(<<>>))

\* list.reverse()
reverse(lst) == Ok(PyList([i \in 1..Len(lst.l) |-> lst.l[Len(lst.l) + 1 - i]]))

\* list.remove(item): the first element equal to item goes.
remove(lst, item) ==
    LET hits == {i \in 1..Len(lst.l) : PyEq(lst.l[i], item)}
        first == CHOOSE i \in hits : \A j \in hits : i <= j
    IN  IF hits = {} THEN Raise("ValueError", lst)
        ELSE Ok(PyList(SubSeq(lst.l, 1, first - 1) \o SubSeq(lst.l, first + 1, Len(lst.l))))

\* list.__delitem__(slice(start, stop)): del lst[start:stop]
DelSlice(lst, start, stop) ==
    LET n == Len(lst.l)
        lo == SliceBound(start, n)
        hi == Max(lo, SliceBound(stop, n))
    IN  Ok(PyList(SubSeq(lst.l, 1, lo) \o SubSeq(lst.l, hi + 1, n)))

\* list.__imul__(n): the elements n times over, none for n <= 0.
RECURSIVE Repeat(_, _)
Repeat(elements, n) == IF n <= 0 THEN <<>> ELSE elements \o Repeat(elements, n - 1)

__imul__(lst, n) == Ok(PyList(Repeat(lst.l, n)))

\* The characters of the model's strings in the order of their code points.
CodePoints == "0123456789ABCDEFGHIJKLMNOPQRSTUVWXYZ_abcdefghijklmnopqrstuvwxyz"

Ord(c) == CHOOSE i \in 1..Len(CodePoints) : SubSeq(CodePoints, i, i) = c

\* str < str
RECURSIVE StrLt(_, _)
StrLt(s, t) ==
    IF t = "" THEN FALSE
    ELSE IF s = "" THEN TRUE
    ELSE IF SubSeq(s, 1, 1) = SubSeq(t, 1, 1)
    THEN StrLt(SubSeq(s, 2, Len(s)), SubSeq(t, 2, Len(t)))
    ELSE Ord(SubSeq(s, 1, 1)) < Ord(SubSeq(t, 1, 1))

\* Whether a < b is defined: between numbers, between strings, and between
\* lists that are equal as far as the shorter goes or whose first unequal
\* elements can be compared.  None compares with nothing, itself included.
RECURSIVE Comparable(_, _)
Comparable(a, b) ==
    IF IsNumber(a) /\ IsNumber(b) THEN TRUE
    ELSE IF a.t # b.t THEN FALSE
    ELSE IF a.t = "str" THEN TRUE
    ELSE IF a.t = "list"
    THEN LET differ == {i \in 1..Min(Len(a.l), Len(b.l)) : ~PyEq(a.l[i], b.l[i])}
             at == CHOOSE i \in differ : \A j \in differ : i <= j
         IN  differ = {} \/ Comparable(a.l[at], b.l[at])
    ELSE FALSE

\* Python's <, where it is defined.
RECURSIVE PyLt(_, _)
PyLt(a, b) ==
    IF IsNumber(a) THEN a.n < b.n
    ELSE IF a.t = "str" THEN StrLt(a.s, b.s)
    ELSE LET differ == {i \in 1..Min(Len(a.l), Len(b.l)) : ~PyEq(a.l[i], b.l[i])}
             at == CHOOSE i \in differ : \A j \in differ : i <= j
         IN  IF differ = {} THEN Len(a.l) < Len(b.l) ELSE PyLt(a.l[at], b.l[at])

\* list.sort() compares without raising: every two elements can be compared.
Sortable(elements) ==
    \A i, j \in 1..Len(elements) : i < j => Comparable(elements[i], elements[j])

\* The stable sort of elements that can be compared: each element, in turn,
\* goes behind the sorted ones that are not greater.
RECURSIVE Sorted(_)
Sorted(elements) ==
    IF elements = <<>> THEN <<>>
    ELSE LET n == Len(elements)
             front == Sorted(SubSeq(elements, 1, n - 1))
             x == elements[n]
             k == Cardinality({i \in 1..(n - 1) : ~PyLt(x, front[i])})
         IN  SubSeq(front, 1, k) \o <<x>> \o SubSeq(front, k + 1, n - 1)

\* What a list.sort() that raises may leave: the comparison that fails
\* ends the sort where it is, with the elements before the one it could
\* not place sorted, as far as it had come, and the others where they were.
Interrupted(elements) ==
    {Sorted(SubSeq(elements, 1, k)) \o SubSeq(elements, k + 1, Len(elements)) :
        k \in {j \in 0..Len(elements) : Sortable(SubSeq(elements, 1, j))}}

\* The task of the module's doctest, with list attributes of ListLen
\* elements: aparms = ListLen * [0.0], a list of the class, and
\* bparms = List(self, 'bparms', [None, 1, 2, ...]).
MyTask ==
    [indisk |-> PyInt(0),
     inseq |-> PyInt(0),
     infile |-> PyStr(""),
     pixavg |-> PyFloat(1),
     aparms |-> PyList([i \in 1..ListLen |-> PyFloat(0)]),
     bparms |-> ListInit(PyList([i \in 1..ListLen |->
                                    IF i = 1 THEN PyNone ELSE PyInt(i - 1)]))]

Attrs == DOMAIN MyTask
ListAttrs == {"aparms", "bparms"}

\* The list attributes MyTask declares in the class body: my_task.a is the
\* list of the class, not a List, until my_task.a = v has stored one.
ClassLists == {"aparms"}

\* my_task.a[key] = item on the list my_task.a is: a List validates, the
\* list of the class does not.
ItemAssign(held, a, lst, key, item) ==
    IF a \in held THEN PlainSetItem(lst, key, item) ELSE ListSetItem(a, lst, key, item)

\* my_task.a[start:stop] = item likewise.
SliceAssign(held, a, lst, start, stop, item) ==
    IF a \in held THEN PlainSetSlice(lst, start, stop, item)
    ELSE ListSetSlice(a, lst, start, stop, item)

\* The count of the writes made without validation after one more step,
\* which has made one or not.
Unchecked(written) == IF written THEN unchecked + 1 ELSE unchecked

NoAccess == [op |-> "none", name |-> "", attr |-> "", err |-> "none", dirty |-> FALSE]

Access(op, name, f, err, dirty) ==
    [op |-> op, name |-> name, attr |-> (IF f.err = "none" THEN f.val ELSE ""),
     err |-> err, dirty |-> dirty]

TInit ==
    /\ store = MyTask
    /\ plain = ClassLists
    /\ unchecked = 0
    /\ last = NoAccess

\* my_task.name = value
SetAttr(name, value) ==
    LET f == _findattr(store, name)
        r == SetAttrResult(store, name, value)
    IN  /\ store' = r.val
        /\ plain' = IF r.err = "none" THEN plain \ {f.val} ELSE plain
        /\ last' = Access("set", name, f, r.err,
                          r.err # "none" /\ f.err = "none" /\ Dirty(f.val, value, store[f.val]))
        /\ UNCHANGED unchecked

\* my_task.name
GetAttr(name) ==
    LET f == _findattr(store, name)
        r == GetAttrResult(store, name)
    IN  /\ last' = Access("get", name, f, r.err, FALSE)
        /\ UNCHANGED <<store, plain, unchecked>>

\* my_task.attr[key] = item
SetItem(attr, key, item) ==
    LET r == ItemAssign(plain, attr, store[attr], key, item)
    IN  /\ store' = [store EXCEPT ![attr] = r.val]
        /\ last' = Access("setitem", attr, Ok(attr), r.err, FALSE)
        /\ unchecked' = Unchecked(attr \in plain /\ r.err = "none")
        /\ UNCHANGED plain

\* my_task.attr[start:stop] = item
SetSlice(attr, start, stop, item) ==
    LET lst == store[attr]
        lo == SliceBound(start, Len(lst.l))
        hi == Max(lo, SliceBound(stop, Len(lst.l)))
        r == SliceAssign(plain, attr, lst, start, stop, item)
    IN  /\ store' = [store EXCEPT ![attr] = r.val]
        /\ last' = Access("setslice", attr, Ok(attr), r.err,
                          r.err # "none" /\ attr \notin plain
                          /\ Dirty(attr, item, PyList(SubSeq(lst.l, lo + 1, hi))))
        /\ unchecked' = Unchecked(attr \in plain /\ r.err = "none")
        /\ UNCHANGED plain

\* my_task.attr.method(...) for a method List inherits, with its result r:
\* the list object is changed in place, List or not.
Mutate(op, attr, r) ==
    /\ store' = [store EXCEPT ![attr] = r.val]
    /\ last' = Access(op, attr, Ok(attr), r.err, FALSE)
    /\ unchecked' = Unchecked(r.err = "none" \/ r.val # store[attr])
    /\ UNCHANGED plain

\* my_task.attr.sort(): sorted in place, or TypeError from the comparison of
\* two elements, which leaves the list with a part of it sorted.
Sort(attr) ==
    IF Len(store[attr].l) < 2 \/ Sortable(store[attr].l)
    THEN Mutate("sort", attr, Ok(PyList(Sorted(store[attr].l))))
    ELSE \E elements \in Interrupted(store[attr].l) :
            Mutate("sort", attr, Raise("TypeError", PyList(elements)))

\* my_task.attr += iterable and my_task.attr *= n: list.__iadd__ or
\* list.__imul__ changes the list object in place (e is its outcome) and
\* returns it, and Task.__setattr__ then validates it against the
\* attribute's value, which is that same object, and stores the List made
\* of it. When the validation raises the list stays as changed.
Augmented(op, attr, e) ==
    LET r == IF e.err # "none" THEN e ELSE _validateattr(attr, e.val, e.val)
    IN  /\ store' = [store EXCEPT ![attr] = IF r.err = "none" THEN r.val ELSE e.val]
        /\ plain' = IF r.err = "none" THEN plain \ {attr} ELSE plain
        /\ last' = Access(op, attr, Ok(attr), r.err, FALSE)
        /\ unchecked' = Unchecked(e.err = "none")

IAdd(attr, iterable) == Augmented("iadd", attr, extend(store[attr], iterable))

IMul(attr, n) == Augmented("imul", attr, __imul__(store[attr], n))

\* my_task.attr.__setslice__(low, high, seq): the list of the class has no
\* such method, a List writes the elements one by one.
CallSetSlice(attr, low, high, seq) ==
    LET r == IF attr \in plain THEN Raise("AttributeError", store[attr])
             ELSE __setslice__(attr, store[attr], low, high, seq)
    IN  /\ store' = [store EXCEPT ![attr] = r.val]
        /\ last' = Access("__setslice__", attr, Ok(attr), r.err, FALSE)
        /\ UNCHANGED <<plain, unchecked>>

(***************************************************************************)
(* The inputs of the assignments.                                          *)
(***************************************************************************)
\* Names given to __setattr__ and __getattr__: an abbreviation of each
\* attribute, "in" of three of them and "out" of none, and the canonical
\* names.
Abbreviations == {"ins", "ind", "inf", "p", "a", "b", "in", "out"}
Names == Attrs \cup Abbreviations

Scalars ==
    {PyNone, PyBool(TRUE), PyInt(0 - 1), PyInt(2), PyInt(5), PyFloat(2),
     PyStr("short"), PyStr("tremendouslylong")}

Twos(n) == [i \in 1..n |-> PyInt(2)]

ParamLists ==
    {PyList(s) : s \in {Twos(1), Twos(ListLen), Twos(ListLen + 1),
                        <<PyNone, PyInt(5)>>, <<PyInt(2), PyStr("x")>>,
                        <<PyInt(2), PyInt(11)>>}}

Values == Scalars \cup ParamLists

\* The values the runs assign, by the abbreviations.
Assigned ==
    {PyInt(2), PyInt(5), PyStr("short"), PyStr("tremendouslylong")} \cup ParamLists

\* The sequences the properties of the list attributes are stated for: up
\* to ListLen + 1 elements, all 1 or all but the first or the last of them.
Deviants == {PyNone, PyStr("x")}

SeqsOf(deviants) ==
    UNION {{[i \in 1..n |-> PyInt(1)]} \cup
           {[i \in 1..n |-> IF i = k THEN e ELSE PyInt(1)] :
                k \in {1, n}, e \in deviants} : n \in 0..(ListLen + 1)}

Seqs == SeqsOf(Deviants)

Keys == (0 - 1)..ListLen
Bounds == 0..ListLen
Items == {PyNone, PyInt(1), PyStr("x"), PyList(<<PyInt(1)>>)}

TaskNext ==
    \/ \E name \in Abbreviations, value \in Assigned :
            SetAttr(name, value) /\ UNCHANGED besidesTask
    \/ \E name \in Abbreviations : GetAttr(name) /\ UNCHANGED besidesTask

\* Where the slices start that C8 is stated for: at the first or the second
\* element.
Starts == {0, 1}

\* The sequence __setslice__ is called with by name.
CallSeqs == {<<PyInt(1)>>}

\* What the runs assign to a list attribute: one element, a None before an
\* element, a string after one, and one element too many.
ListsAssigned ==
    {PyList(<<PyInt(1)>>), PyList(<<PyNone, PyInt(1)>>), PyList(<<PyInt(1), PyStr("x")>>),
     PyList([i \in 1..(ListLen + 1) |-> PyInt(1)])}

\* ... to its elements: the first and the last.
KeysAssigned == {0, 0 - 1}
ItemsAssigned == {PyNone, PyInt(1)}

\* ... to its slices: a list shorter than the slice, and a string.
SlicesAssigned == {<<0, 2>>, <<1, ListLen>>}
SliceItems == {PyList(<<PyInt(1)>>), PyStr("x")}

\* ... and what the inherited methods are called with: append(1),
\* insert(0, 'x'), extend([1]), extend(None), which raises, pop(),
\* del my_task.attr[0], clear() and my_task.attr += [1].
Appended == {PyInt(1)}
Inserted == {PyStr("x")}
Extensions == {PyList(<<PyInt(1)>>), PyNone}
Added == {PyList(<<PyInt(1)>>)}
Deleted == {0}
\* remove(1), del my_task.attr[0:2], my_task.attr *= 0 and *= 2; reverse()
\* and sort() take nothing.
Removed == {PyInt(1)}
DeletedSlices == {<<0, 2>>}
Multipliers == {0, 2}

\* The runs write MaxUnchecked times to a list without validation, by an
\* assignment to the list of the class or by an inherited method.
Bounded == unchecked' <= MaxUnchecked

\* The steps on the list attributes: the three assignments, the call of
\* __setslice__, and the calls of the methods List inherits from list:
\* append, extend, insert, pop, __delitem__ (del my_task.attr[key] and
\* del my_task.attr[start:stop]), clear, remove, reverse, sort, __iadd__
\* (my_task.attr += iterable) and __imul__ (my_task.attr *= n).
ListNext ==
    \/ \E attr \in ListAttrs, value \in ListsAssigned :
            SetAttr(attr, value) /\ UNCHANGED besidesTask
    \/ \E attr \in ListAttrs, key \in KeysAssigned, item \in ItemsAssigned :
            SetItem(attr, key, item) /\ Bounded /\ UNCHANGED besidesTask
    \/ \E attr \in ListAttrs, slice \in SlicesAssigned, item \in SliceItems :
            /\ SetSlice(attr, slice[1], slice[2], item)
            /\ Bounded
            /\ UNCHANGED besidesTask
    \/ \E attr \in ListAttrs, slice \in SlicesAssigned, seq \in CallSeqs :
            CallSetSlice(attr, slice[1], slice[2], seq) /\ UNCHANGED besidesTask
    \/ \E attr \in ListAttrs, item \in Appended :
            /\ Mutate("append", attr, append(store[attr], item))
            /\ Bounded
            /\ UNCHANGED besidesTask
    \/ \E attr \in ListAttrs, iterable \in Extensions :
            /\ Mutate("extend", attr, extend(store[attr], iterable))
            /\ Bounded
            /\ UNCHANGED besidesTask
    \/ \E attr \in ListAttrs, item \in Inserted :
            /\ Mutate("insert", attr, insert(store[attr], 0, item))
            /\ Bounded
            /\ UNCHANGED besidesTask
    \/ \E attr \in ListAttrs :
            /\ Mutate("pop", attr, __delitem__(store[attr], 0 - 1))
            /\ Bounded
            /\ UNCHANGED besidesTask
    \/ \E attr \in ListAttrs, key \in Deleted :
            /\ Mutate("delitem", attr, __delitem__(store[attr], key))
            /\ Bounded
            /\ UNCHANGED besidesTask
    \/ \E attr \in ListAttrs :
            /\ Mutate("clear", attr, clear(store[attr]))
            /\ Bounded
            /\ UNCHANGED besidesTask
    \/ \E attr \in ListAttrs, iterable \in Added :
            /\ IAdd(attr, iterable)
            /\ Bounded
            /\ UNCHANGED besidesTask
    \/ \E attr \in ListAttrs, n \in Multipliers :
            /\ IMul(attr, n)
            /\ Bounded
            /\ UNCHANGED besidesTask
    \/ \E attr \in ListAttrs, item \in Removed :
            /\ Mutate("remove", attr, remove(store[attr], item))
            /\ Bounded
            /\ UNCHANGED besidesTask
    \/ \E attr \in ListAttrs, slice \in DeletedSlices :
            /\ Mutate("delslice", attr, DelSlice(store[attr], slice[1], slice[2]))
            /\ Bounded
            /\ UNCHANGED besidesTask
    \/ \E attr \in ListAttrs :
            /\ Mutate("reverse", attr, reverse(store[attr]))
            /\ Bounded
            /\ UNCHANGED besidesTask
    \/ \E attr \in ListAttrs :
            /\ Sort(attr)
            /\ Bounded
            /\ UNCHANGED besidesTask


(***************************************************************************)
(* Properties of the list attributes, checked under SpecList: in every     *)
(* reachable state, for every assignment the inputs allow.                 *)
(***************************************************************************)
\* The elements lst[start:stop] addresses.
SliceLen(lst, start, stop) ==
    LET lo == SliceBound(start, Len(lst.l))
    IN  Max(lo, SliceBound(stop, Len(lst.l))) - lo

\* lst[start:stop] ends where lst ends.
SliceToEnd(lst, start, stop) ==
    Max(SliceBound(start, Len(lst.l)), SliceBound(stop, Len(lst.l))) = Len(lst.l)

\* C6 (as claimed): a list attribute always has the ListLen elements it was
\* declared with; assigning it a whole list of more elements than it has is
\* rejected; and so is a slice assignment whose sequence has more or fewer
\* elements than the slice addresses (fewer elements in a slice that reaches
\* the end of the list, which __setslice__ fills up, are left aside).
C6_FixedLength ==
    \A a \in ListAttrs :
        /\ Len(store[a].l) = ListLen
        /\ \A seq \in Seqs :
                Len(seq) > Len(store[a].l)
                    => SetAttrResult(store, a, PyList(seq)).err # "none"
        /\ \A start \in Bounds, stop \in Bounds, seq \in Seqs :
                (\/ Len(seq) > SliceLen(store[a], start, stop)
                 \/ /\ Len(seq) < SliceLen(store[a], start, stop)
                    /\ ~SliceToEnd(store[a], start, stop))
                => SliceAssign(plain, a, store[a], start, stop, PyList(seq)).err # "none"

\* C7 (as claimed): a list attribute whose element 0 is None keeps it None;
\* assigning anything but None to element 0, by index, by a slice that
\* starts at 0 or by a whole list, fails and leaves the list as it was;
\* assigning None to element 0 by index succeeds and leaves the list as it
\* was.
C7_Sentinel ==
    /\ Len(store.bparms.l) >= 1 /\ store.bparms.l[1] = PyNone
    /\ \A a \in ListAttrs : (Len(store[a].l) >= 1 /\ store[a].l[1] = PyNone) =>
        /\ \A item \in Items, key \in {0, 0 - ListLen} :
                LET r == ItemAssign(plain, a, store[a], key, item)
                IN  /\ r.val = store[a]
                    /\ r.err = "none" <=> item = PyNone
        /\ \A stop \in Bounds, seq \in Seqs :
                (stop >= 1 /\ Len(seq) >= 1 /\ seq[1] # PyNone) =>
                    LET r == SliceAssign(plain, a, store[a], 0, stop, PyList(seq))
                    IN  r.err # "none" /\ r.val = store[a]
        /\ \A seq \in Seqs :
                (Len(seq) >= 1 /\ seq[1] # PyNone) =>
                    LET r == SetAttrResult(store, a, PyList(seq))
                    IN  r.err # "none" /\ r.val = store

\* The values C8 is stated for. Assigned to a list attribute: the lists of
\* two and of ListLen + 1 elements that are all 1 or have a None or an 11,
\* which is out of range for aparms, first or last. Assigned to a slice:
\* what the runs assign, no element, two, a None first or last, and an 11
\* last.
ListValues ==
    {PyList(seq) : seq \in {s \in SeqsOf({PyNone, PyInt(11)}) : Len(s) \in {2, ListLen + 1}}}

SliceValues ==
    SliceItems \cup {PyList(<<>>), PyList(<<PyInt(1), PyInt(1)>>),
                     PyList(<<PyNone, PyInt(1)>>), PyList(<<PyInt(1), PyNone>>),
                     PyList(<<PyInt(1), PyInt(11)>>)}

\* C8: an assignment that raises (of an attribute, of an element, of a slice;
\* for a wrong type, a value out of range, the None element or too many
\* elements) leaves every attribute of the task as it was. (A slice that
\* stops before it starts is the empty slice at its start.)
C8_NoPartialMutation ==
    /\ \A a \in Attrs, v \in Items \cup ListsAssigned :
            LET r == SetAttrResult(store, a, v)
            IN  r.err # "none" => r.val = store
    /\ \A a \in ListAttrs :
        /\ \A v \in ListValues :
                LET r == SetAttrResult(store, a, v)
                IN  r.err # "none" => r.val = store
        /\ \A key \in Keys, item \in Items :
                LET r == ItemAssign(plain, a, store[a], key, item)
                IN  r.err # "none" => r.val = store[a]
        /\ \A start \in Starts, stop \in Bounds, item \in SliceValues :
                start <= stop =>
                    LET r == SliceAssign(plain, a, store[a], start, stop, item)
                    IN  r.err # "none" => r.val = store[a]

\* C8 witness: a whole-list or slice assignment has just been rejected for an
\* element that came after elements that had passed validation.
C8_Witness ==
    /\ last.op \in {"set", "setslice"}
    /\ last.err \in {"TypeError:type", "ValueError:prohibited"}
    /\ last.dirty

(***************************************************************************)
(* Properties of the attributes accessed by name, checked under SpecParam. *)
(***************************************************************************)
\* C9 (as claimed): when my_task.N = V succeeds for a canonical name N, then
\* my_task.N == V, the stored value has the type of the value stored before,
\* and an int assigned to a float attribute is stored as the equal float.
C9_SetThenGet ==
    \A N \in Attrs, V \in Values :
        LET r == SetAttrResult(store, N, V)
            g == GetAttrResult(r.val, N)
        IN  r.err = "none" =>
                /\ g.err = "none"
                /\ PyEq(g.val, V)
                /\ g.val.t = store[N].t
                /\ (V.t = "int" /\ store[N].t = "float") => g.val = PyFloat(V.n)

\* C10: a name that is a prefix of exactly one canonical name reads and
\* assigns that attribute, with the outcome the canonical name has; a name
\* that is a prefix of none or of several raises AttributeError, and the
\* assignment changes nothing.
C10_Abbreviation ==
    \A name \in Names :
        LET matches == {a \in Attrs : StartsWith(a, name)}
        IN  IF Cardinality(matches) = 1
            THEN \A a \in matches :
                    /\ GetAttrResult(store, name) = Ok(store[a])
                    /\ \A v \in Values :
                            LET r == SetAttrResult(store, name, v)
                            IN  /\ r = SetAttrResult(store, a, v)
                                /\ \A b \in Attrs \ {a} : r.val[b] = store[b]
            ELSE /\ GetAttrResult(store, name).err = "AttributeError"
                 /\ \A v \in Values :
                        SetAttrResult(store, name, v) = Raise("AttributeError", store)

\* C10 witness: the abbreviation "ins" has just been assigned through and
\* inseq holds the value, after the ambiguous "in" cannot have changed it.
C10_Witness ==
    /\ last.op = "set" /\ last.name = "ins" /\ last.attr = "inseq"
    /\ last.err = "none"
    /\ store.inseq = PyInt(2)

(***************************************************************************)
(* The checks of Task._validateattr, one by one.                           *)
(***************************************************************************)
\* The value after the coercion of Task._validateattr: an int (or bool) given
\* for a stored float is the equal float.
Coerce(value, stored) ==
    IF IsInstance(value, "int") /\ stored.t = "float" THEN PyFloat(value.n) ELSE value

\* value is below the declared minimum or above the declared maximum of attr.
OutOfRange(attr, value) ==
    \/ attr \in DOMAIN _min_dict /\ value.n < _min_dict[attr]
    \/ attr \in DOMAIN _max_dict /\ value.n > _max_dict[attr]

RangeValues ==
    {PyInt(0 - 1), PyInt(0), PyInt(2), PyInt(4), PyInt(5), PyInt(10), PyInt(11),
     PyBool(TRUE), PyFloat(2), PyFloat(11)}

\* C11: for an attribute with declared limits, a number of the stored type
\* (after coercion) outside the limits is refused with the out-of-range
\* error and nothing changes, and one within the limits is stored; the same
\* for the elements of a list attribute with declared limits that is a List.
C11_Range ==
    /\ \A N \in (DOMAIN _min_dict \cup DOMAIN _max_dict) \cap Attrs, V \in RangeValues :
            LET v == Coerce(V, store[N])
                r == SetAttrResult(store, N, V)
            IN  v.t = store[N].t =>
                    IF OutOfRange(N, v)
                    THEN r = Raise("ValueError:range", store)
                    ELSE r = Ok([store EXCEPT ![N] = v])
    /\ \A N \in ((DOMAIN _min_dict \cup DOMAIN _max_dict) \cap ListAttrs) \ plain :
          \A key \in 0..(Len(store[N].l) - 1), V \in RangeValues :
            LET v == Coerce(V, store[N].l[key + 1])
                r == ListSetItem(N, store[N], key, V)
            IN  v.t = store[N].l[key + 1].t =>
                    IF OutOfRange(N, v)
                    THEN r = Raise("ValueError:range", store[N])
                    ELSE r = Ok(PyList([store[N].l EXCEPT ![key + 1] = v]))

\* C11 witness: inseq = 5 has just been refused as out of range, with the 2
\* assigned before still stored.
C11_Witness ==
    /\ last.op = "set" /\ last.attr = "inseq" /\ last.err = "ValueError:range"
    /\ store.inseq = PyInt(2)

\* C12 (as claimed): an assignment by name of a value whose type, after the
\* coercion of int to float, is not the type of the stored value fails with
\* the invalid-type error and changes nothing.
C12_TypeCheck ==
    \A N \in Attrs, V \in Values :
        Coerce(V, store[N]).t # store[N].t =>
            SetAttrResult(store, N, V) = Raise("TypeError:type", store)

Strings == {"", "short", "fourteen_chars", "fifteen___chars", "tremendouslylong"}

\* C13: a string for infile (declared length 14) is refused with the
\* too-long error, nothing changing, exactly when it has more than 14
\* characters, and stored otherwise; for a string attribute without a
\* declared length every string is accepted.
C13_StringLength ==
    \A s \in Strings :
        /\ \A N \in DOMAIN _strlen_dict :
                LET r == SetAttrResult(store, N, PyStr(s))
                IN  IF Len(s) > _strlen_dict[N]
                    THEN r = Raise("ValueError:toolong", store)
                    ELSE r = Ok([store EXCEPT ![N] = PyStr(s)])
        /\ _validateattr("outfile", PyStr(s), PyStr("short")) = Ok(PyStr(s))

\* C13 witness: a string of 16 characters has just been refused for infile,
\* which keeps the string assigned before.
C13_Witness ==
    /\ last.op = "set" /\ last.attr = "infile" /\ last.err = "ValueError:toolong"
    /\ store.infile = PyStr("short")

\* C14 (as claimed): an accepted a[i:j] = seq with len(seq) = j - i leaves
\* a list of ListLen elements in which the positions i..j-1 hold the
\* elements of seq, equal in value and of the type stored there before (an
\* int in a float list is the float), and every other position holds what
\* it held.
C14_SliceEffect ==
    \A a \in ListAttrs, i \in Bounds, j \in Bounds, seq \in SeqsOf(Deviants \cup {PyInt(2)}) :
        LET r == SliceAssign(plain, a, store[a], i, j, PyList(seq))
        IN  (i <= j /\ Len(seq) = j - i /\ r.err = "none") =>
                /\ Len(r.val.l) = ListLen
                /\ Len(store[a].l) = ListLen
                /\ \A p \in 1..ListLen :
                        IF i < p /\ p <= j
                        THEN /\ PyEq(r.val.l[p], seq[p - i])
                             /\ r.val.l[p].t = store[a].l[p].t
                        ELSE r.val.l[p] = store[a].l[p]

(***************************************************************************)
(* The reap in Task.messages (Proxy/Task.py), checked under SpecProc.      *)
(***************************************************************************)
\* os.read(tid, 2048) raises OSError: the descriptor is readable, nothing is
\* buffered, and the platform reports the hung-up terminal as an error.
ReadFails(tid) ==
    /\ tid \in DOMAIN fdOpen
    /\ Readable(tid)
    /\ outq[fdOpen[tid]] = <<>>
    /\ ptyEnd = "error"

\* C20: when the read of messages(tid) fails for a task recorded as running,
\* messages raises nothing and returns no line; it sets the recorded process
\* id to 0 exactly when the child has terminated (the reap returns it, with
\* an exited or signaled status), and changes no record when the reap
\* reports nothing.
C20_ReapOnReadFailure ==
    [][\A t \in Tids :
        (plast'.op = "messages" /\ Running(t) /\ ReadFails(t) /\ Messages(t)) =>
            /\ plast'.err = "none"
            /\ plast'.msgs = <<>>
            /\ (_pid'[t] = 0) <=>
                    /\ child[_pid[t]].pc = "zombie"
                    /\ child[_pid[t]].status \in {"exit1", "exited", "signaled"}
            /\ child[_pid[t]].pc # "zombie" => (_pid' = _pid /\ child' = child)
            /\ \A u \in DOMAIN _pid \ {t} : _pid'[u] = _pid[u]
            /\ DOMAIN _pid' = DOMAIN _pid
      ]_pvars

\* C20 witness: messages has just returned no line, having reaped the
\* terminated child and recorded the task as finished.
C20_Witness ==
    /\ plast.op = "messages" /\ plast.err = "none" /\ plast.msgs = <<>>
    /\ Done(plast.tid)
    /\ plast.tid \in DOMAIN fdOpen
    /\ child[fdOpen[plast.tid]].pc = "reaped"

(***************************************************************************)
(* The server's dispatch (bin/XMLRPCServer.py): ServerFuncs._dispatch      *)
(* receives the name and the arguments of every request.                   *)
(***************************************************************************)
\* str.count(ch) for a character ch
Count(s, ch) == Cardinality({i \in 1..Len(s) : SubSeq(s, i, i) = ch})

\* str.split(ch) for a character ch
RECURSIVE Split(_, _)
Split(s, ch) ==
    IF \E i \in 1..Len(s) : SubSeq(s, i, i) = ch
    THEN LET i == CHOOSE i \in 1..Len(s) :
                    /\ SubSeq(s, i, i) = ch
                    /\ \A j \in 1..(i - 1) : SubSeq(s, j, j) # ch
         IN  <<SubSeq(s, 1, i - 1)>> \o Split(SubSeq(s, i + 1, Len(s)), ch)
    ELSE <<s>>

\* The target objects ServerFuncs.__init__ creates, by attribute name.
Targets == {"AIPSTask", "AIPSUVData", "AIPSImage", "AIPSCat"}

\* What getattr(self, name) finds on the ServerFuncs object: the target
\* objects and (two of) its other attributes, the bound method _dispatch
\* and the class.
ServerAttrs == Targets \cup {"_dispatch", "__class__"}

\* Methods of the target objects (a few of each): what getattr(inst, name)
\* finds.  AIPSTask is a task supervisor (Proxy/Task.py).
MethodsOf(inst) ==
    CASE inst = "AIPSTask" -> {"spawn", "finished"}
      [] inst = "AIPSUVData" -> {"exists", "antennas"}
      [] inst = "AIPSImage" -> {"exists"}
      [] inst = "AIPSCat" -> {"cat"}
      [] inst = "_dispatch" -> {"__call__"}
      [] inst = "__class__" -> {"_dispatch"}

\* What method(*args) of a target object returns: the handlers are opaque.
MethodResult(inst, method, args) == <<"result of", inst, method, args>>

\* (mutant) names with more than one dot pass.
DispatchCallLoose(name, args) ==
    IF StartsWith(name, "AIPS") /\ Count(name, ".") >= 1
    THEN LET parts == Split(name, ".")
         IN  IF parts[1] \notin ServerAttrs \/ parts[2] \notin MethodsOf(parts[1])
             THEN [err |-> "AttributeError", call |-> <<>>]
             ELSE [err |-> "none", call |-> <<parts[1], parts[2], args>>]
    ELSE [err |-> "AttributeError", call |-> <<>>]

\* (mutant) names that do not start with AIPS pass.
DispatchCallAnyPrefix(name, args) ==
    IF Count(name, ".") = 1
    THEN LET parts == Split(name, ".")
         IN  IF parts[1] \notin ServerAttrs \/ parts[2] \notin MethodsOf(parts[1])
             THEN [err |-> "AttributeError", call |-> <<>>]
             ELSE [err |-> "none", call |-> <<parts[1], parts[2], args>>]
    ELSE [err |-> "AttributeError", call |-> <<>>]

\* ServerFuncs._dispatch(name, args) up to the call: the exception raised, or
\* the call method(*args) made, as <<target, method, args>>.
DispatchCall(name, args) ==
    IF StartsWith(name, "AIPS") /\ Count(name, ".") = 1
    THEN LET parts == Split(name, ".")
         IN  IF parts[1] \notin ServerAttrs \/ parts[2] \notin MethodsOf(parts[1])
             THEN [err |-> "AttributeError", call |-> <<>>]
             ELSE [err |-> "none", call |-> <<parts[1], parts[2], args>>]
    ELSE [err |-> "AttributeError", call |-> <<>>]

\* Names and arguments of the requests.
WireNames ==
    {"AIPSCat.cat", "AIPSImage.exists", "AIPSUVData.antennas", "AIPSTask.finished",
     "AIPSImage.antennas", "AIPSFoo.cat", "AIPSImage.", "AIPSCat", "AIPSCat.cat.x",
     "AIPSImage..exists", "os.system", "system", "_dispatch.__call__",
     "__class__._dispatch"}

WireArgs == {<<>>, <<"desc">>, <<"disk", "userno">>}

DInit ==
    /\ invoked = {}
    /\ dlast = [name |-> "", args |-> <<>>, err |-> "none", val |-> <<>>]

\* The numbers of arguments a method of a target object takes, self apart:
\* spawn(path, args, env=None), finished(tid), exists(desc),
\* antennas(desc), cat(disk, userno).
Parameters(inst, method) ==
    CASE method = "spawn" -> {2, 3}
      [] method = "cat" -> {2}
      [] OTHER -> {1}

\* method(*args): the arguments are bound to the parameters before the
\* method is entered; when they do not fit, the call raises TypeError.
Fits(call) == Len(call[3]) \in Parameters(call[1], call[2])

\* One request: _dispatch(name, args)
Dispatch(name, args) ==
    LET r == DispatchCall(name, args)
        entered == r.call # <<>> /\ Fits(r.call)
    IN  /\ invoked' = (IF entered THEN invoked \cup {r.call} ELSE invoked)
        /\ dlast' = [name |-> name, args |-> args,
                     err |-> IF r.call # <<>> /\ ~entered THEN "TypeError" ELSE r.err,
                     val |-> IF entered
                             THEN MethodResult(r.call[1], r.call[2], r.call[3])
                             ELSE <<>>]

DispatchNext ==
    \/ \E name \in WireNames, args \in WireArgs : Dispatch(name, args) /\ UNCHANGED besidesDispatch

\* C15: a request whose name has no dot, or more than one, ends with
\* AttributeError and no target object is called; a request named
\* <target>.<method> for a method of a target object calls that method of
\* that object with the arguments of the request: when they fit the
\* method's parameters the method runs once with them and its result is the
\* outcome of the request, and when they do not the call raises TypeError,
\* which is the outcome, and no method has run.
C15_Dispatch ==
    [][\A name \in WireNames, args \in WireArgs :
        (dlast'.name = name /\ dlast'.args = args /\ Dispatch(name, args)) =>
            IF Count(name, ".") # 1
            THEN dlast'.err = "AttributeError" /\ invoked' = invoked
            ELSE \A c \in Targets : \A meth \in MethodsOf(c) :
                    name = c \o "." \o meth =>
                        IF Len(args) \in Parameters(c, meth)
                        THEN /\ dlast'.err = "none"
                             /\ dlast'.val = MethodResult(c, meth, args)
                             /\ invoked' = invoked \cup {<<c, meth, args>>}
                        ELSE /\ dlast'.err = "TypeError"
                             /\ invoked' = invoked
      ]_dvars

\* C15 witness: the request AIPSCat.cat.x has just been refused, after
\* AIPSCat.cat had been called with a disk and a user number, and nothing
\* else was called.
C15_Witness ==
    /\ dlast.name = "AIPSCat.cat.x" /\ dlast.err = "AttributeError"
    /\ invoked = {<<"AIPSCat", "cat", <<"disk", "userno">>>>}

(***************************************************************************)
(* Data objects (AIPSData.py): _AIPSData, its subclasses AIPSImage and     *)
(* AIPSUVData, and the descriptor _AIPSDataDesc each object holds.         *)
(***************************************************************************)
\* The variables of the program that are bound to data objects.
ObjIds == {"uvdata", "uvjunk"}

Other(o) == IF o = "uvdata" THEN "uvjunk" ELSE "uvdata"

Classes == {"AIPSImage", "AIPSUVData"}

\* AIPS.userno, the default user number.
AIPS_userno == 0

\* AIPS.disks[1:], by the disk number of each AIPSDisk; AIPS.disks[0] is None.
AIPS_disks == <<1, 2>>

\* AIPS.disks[disk] followed by .disk, with Python's list indexing.
DiskLookup(disk) ==
    LET n == Len(AIPS_disks) + 1
        i == IF disk < 0 THEN disk + n ELSE disk
    IN  IF i < 0 \/ i >= n THEN [err |-> "IndexError", disk |-> 0]
        ELSE IF i = 0 THEN [err |-> "AttributeError", disk |-> 0]
        ELSE [err |-> "none", disk |-> AIPS_disks[i]]

\* AIPS.disks[disk].proxy(): every disk of the table has the URL None, and
\* its proxy is the module LocalProxy.
DiskProxy(disk) == "LocalProxy"

NoObj == [cls |-> "none", _disk |-> 0, desc |-> "none", proxy |-> "none"]
NoDesc == [name |-> "", klass |-> "", disk |-> 0, seq |-> 0, userno |-> 0]

\* The descriptor of the object bound to o.
Desc(o) == descs[objs[o].desc]

\* _AIPSData.__init__(*args) of class cls, for args of name, class, disk,
\* sequence number and, optionally, user number, or for the one argument of
\* an object that has these attributes (here: the data object bound to
\* args[1], whose disk attribute is its _disk): the exception raised, or the
\* object's _disk and the fields of the descriptor it creates.
Construct(cls, args) ==
    IF Len(args) \notin {1, 4, 5}
    THEN [err |-> "TypeError", _disk |-> 0, desc |-> NoDesc]
    ELSE LET name == IF Len(args) = 1 THEN Desc(args[1]).name ELSE args[1]
             klass == IF Len(args) = 1 THEN Desc(args[1]).klass ELSE args[2]
             disk == IF Len(args) = 1 THEN objs[args[1]]._disk ELSE args[3]
             seq == IF Len(args) = 1 THEN Desc(args[1]).seq ELSE args[4]
             given == IF Len(args) = 1 THEN Desc(args[1]).userno
                      ELSE IF Len(args) = 5 THEN args[5] ELSE 0 - 1
             userno == IF given = 0 - 1 THEN AIPS_userno ELSE given
             d == DiskLookup(disk)
         IN  IF d.err = "IndexError"
             THEN [err |-> "RuntimeError", _disk |-> disk, desc |-> NoDesc]
             ELSE IF d.err # "none"
             THEN [err |-> d.err, _disk |-> disk, desc |-> NoDesc]
             ELSE [err |-> "none", _disk |-> disk,
                   desc |-> [name |-> name, klass |-> klass, disk |-> d.disk,
                             seq |-> seq, userno |-> userno]]

\* (mutant) the user number is not compared.
DataEqNoUserno(x, y) ==
    /\ objs[x].cls = objs[y].cls
    /\ Desc(x).name = Desc(y).name
    /\ Desc(x).klass = Desc(y).klass
    /\ Desc(x).disk = Desc(y).disk
    /\ Desc(x).seq = Desc(y).seq

\* _AIPSData.__eq__(self, other) for the objects bound to x and y
DataEq(x, y) ==
    IF objs[x].cls # objs[y].cls THEN FALSE
    ELSE IF Desc(x).name # Desc(y).name THEN FALSE
    ELSE IF Desc(x).klass # Desc(y).klass THEN FALSE
    ELSE IF Desc(x).disk # Desc(y).disk THEN FALSE
    ELSE IF Desc(x).seq # Desc(y).seq THEN FALSE
    ELSE IF Desc(x).userno # Desc(y).userno THEN FALSE
    ELSE TRUE

\* Where the descriptor of the object bound to p lives, p being made by
\* o.copy(): the constructor creates a new _AIPSDataDesc for it.
CopyDesc(o, p) == p

NoOp == [op |-> "none", obj |-> "none", err |-> "none", res |-> FALSE]

AInit ==
    /\ objs = [o \in ObjIds |-> NoObj]
    /\ descs = [o \in ObjIds |-> NoDesc]
    /\ alast = NoOp

\* o = cls(*args); an object given as the one argument is a bound one.
New(o, cls, args) ==
    LET r == Construct(cls, args)
    IN  /\ Len(args) = 1 => objs[args[1]] # NoObj
        /\ alast' = [op |-> "new", obj |-> o, err |-> r.err, res |-> FALSE]
        /\ IF r.err # "none"
           THEN UNCHANGED <<objs, descs>>
           ELSE /\ objs' = [objs EXCEPT ![o] = [cls |-> cls, _disk |-> r._disk, desc |-> o,
                                             proxy |-> DiskProxy(r._disk)]]
                /\ descs' = [descs EXCEPT ![o] = r.desc]

\* p = o.copy()
Copy(o, p) ==
    /\ objs[o] # NoObj
    /\ LET r == Construct(objs[o].cls,
                          <<Desc(o).name, Desc(o).klass, objs[o]._disk, Desc(o).seq,
                            Desc(o).userno>>)
           at == CopyDesc(o, p)
       IN  /\ alast' = [op |-> "copy", obj |-> o, err |-> r.err, res |-> FALSE]
           /\ IF r.err # "none"
              THEN UNCHANGED <<objs, descs>>
              ELSE /\ objs' = [objs EXCEPT ![p] = [cls |-> objs[o].cls, _disk |-> r._disk,
                                                    desc |-> at,
                                                    proxy |-> DiskProxy(r._disk)]]
                   /\ descs' = [descs EXCEPT ![at] = r.desc]

\* o.name = v, o.klass = v, o.seq = v, o.userno = v
SetField(o, field, v) ==
    /\ objs[o] # NoObj
    /\ descs' = [descs EXCEPT ![objs[o].desc] =
                    CASE field = "name" -> [@ EXCEPT !.name = v]
                      [] field = "klass" -> [@ EXCEPT !.klass = v]
                      [] field = "seq" -> [@ EXCEPT !.seq = v]
                      [] field = "userno" -> [@ EXCEPT !.userno = v]]
    /\ alast' = [op |-> "set", obj |-> o, err |-> "none", res |-> FALSE]
    /\ UNCHANGED objs

\* o.disk = disk
SetDisk(o, disk) ==
    /\ objs[o] # NoObj
    /\ LET d == DiskLookup(disk)
       IN  /\ objs' = [objs EXCEPT ![o] =
                        [@ EXCEPT !._disk = disk,
                                  !.proxy = IF d.err = "none" THEN DiskProxy(disk) ELSE @]]
           /\ descs' = IF d.err = "none"
                       THEN [descs EXCEPT ![objs[o].desc].disk = d.disk]
                       ELSE descs
           /\ alast' = [op |-> "set", obj |-> o, err |-> d.err, res |-> FALSE]

\* o.rename(name, klass, seq), each argument given (<<v>>) or left at None
\* (<<>>): one call of the proxy with the descriptor and the new name, class
\* and sequence number, and then the three fields are assigned from its
\* answer.  The proxy answers with the three it was given, a sequence number
\* of 0 replaced by the one the data set was assigned (reply = <<n>>), or
\* raises (reply = <<>>).  The keyword arguments name, klass and seq bind to
\* the parameters of these names, so that kwds never holds them.
Rename(o, name, klass, seq, reply) ==
    /\ objs[o] # NoObj
    /\ LET n == IF name = <<>> THEN Desc(o).name ELSE name[1]
           k == IF klass = <<>> THEN Desc(o).klass ELSE klass[1]
           s == IF seq = <<>> THEN Desc(o).seq ELSE seq[1]
       IN  IF reply = <<>>
           THEN /\ alast' = [op |-> "rename", obj |-> o, err |-> "Exception",
                             res |-> FALSE]
                /\ UNCHANGED <<objs, descs>>
           ELSE /\ descs' = [descs EXCEPT ![objs[o].desc] =
                                [@ EXCEPT !.name = n, !.klass = k,
                                          !.seq = IF s = 0 THEN reply[1] ELSE s]]
                /\ alast' = [op |-> "rename", obj |-> o, err |-> "none", res |-> FALSE]
                /\ UNCHANGED objs

\* x == y
Compare(x, y) ==
    /\ objs[x] # NoObj /\ objs[y] # NoObj
    /\ alast' = [op |-> "eq", obj |-> x, err |-> "none", res |-> DataEq(x, y)]
    /\ UNCHANGED <<objs, descs>>

\* Inputs.
NewArgs ==
    {<<"NONAME", "UVDATA", 1, 1>>, <<"NONAME", "IMAGE", 2, 1, 3>>,
     <<"NONAME", "UVDATA", 9, 1>>} \cup {<<x>> : x \in ObjIds}

FieldValues(field) ==
    CASE field = "name" -> {"NONAME", "GARBAGE"}
      [] field = "klass" -> {"UVDATA", "IMAGE"}
      [] field = "seq" -> {1, 2}
      [] field = "userno" -> {0 - 1, 3}

DiskValues == {1, 2}

RenameArgs ==
    {<< <<>>, <<>>, <<>> >>, << <<"GARBAGE">>, <<>>, <<0>> >>,
     << <<>>, <<"IMAGE">>, <<2>> >>}

Replies == {<<>>, <<2>>}

DataNext ==
    \/ \E o \in ObjIds, cls \in Classes, args \in NewArgs :
          New(o, cls, args) /\ UNCHANGED besidesData
    \/ \E o \in ObjIds, args \in RenameArgs, reply \in Replies :
          Rename(o, args[1], args[2], args[3], reply) /\ UNCHANGED besidesData
    \/ \E o \in ObjIds : Copy(o, Other(o)) /\ UNCHANGED besidesData
    \/ \E o \in ObjIds, field \in {"name", "klass", "seq", "userno"} :
          \E v \in FieldValues(field) : SetField(o, field, v) /\ UNCHANGED besidesData
    \/ \E o \in ObjIds, disk \in DiskValues : SetDisk(o, disk) /\ UNCHANGED besidesData
    \/ \E o \in ObjIds : Compare(o, Other(o)) /\ UNCHANGED besidesData

\* The five identity fields of the objects bound to x and y are pairwise equal.
SameFields(x, y) ==
    /\ Desc(x).name = Desc(y).name
    /\ Desc(x).klass = Desc(y).klass
    /\ Desc(x).disk = Desc(y).disk
    /\ Desc(x).seq = Desc(y).seq
    /\ Desc(x).userno = Desc(y).userno

\* C16 (as stated): x == y is true exactly when the five identity fields of
\* the two data objects are pairwise equal.
C16_EqualIffFields ==
    alast.op = "eq" => (alast.res <=> SameFields(alast.obj, Other(alast.obj)))

\* C16 (amended): x == y is true exactly when the two data objects are of the
\* same class and their five identity fields are pairwise equal: an image and
\* a uv data set of the same name, class-code, disk, sequence number and user
\* number are different.
C16_EqualIffClassAndFields ==
    alast.op = "eq" =>
        (alast.res <=> /\ objs[alast.obj].cls = objs[Other(alast.obj)].cls
                       /\ SameFields(alast.obj, Other(alast.obj)))

\* C16 witness: two objects of one class that differ in the user number
\* only have been compared, and were found different.
C16_Witness ==
    /\ alast.op = "eq" /\ ~alast.res
    /\ objs["uvdata"].cls = objs["uvjunk"].cls
    /\ Desc("uvdata").userno # Desc("uvjunk").userno
    /\ [Desc("uvdata") EXCEPT !.userno = 0] = [Desc("uvjunk") EXCEPT !.userno = 0]

\* C17: p = o.copy() gives an object equal to o, and a later assignment to
\* the name, class, sequence number, user number or disk of one object
\* leaves the descriptor of the other as it was.
C17_CopyIndependent ==
    [][\A o \in ObjIds :
        /\ (alast'.op = "copy" /\ alast'.obj = o) =>
              /\ alast'.err = "none"
              /\ objs'[Other(o)] # NoObj
              /\ DataEq(Other(o), o)'
        /\ (alast'.op = "set" /\ alast'.obj = o /\ objs[Other(o)] # NoObj) =>
              Desc(Other(o))' = Desc(Other(o))
      ]_avars

(***************************************************************************)
(* The catalogue (AIPSData.py, AIPSCat) of one disk.                       *)
(***************************************************************************)
\* The entries the catalogue can hold, by slot (cno).
CatEntries ==
    << [name |-> "MANDELBROT", klass |-> "MANDL", seq |-> 1, type |-> "MA"],
       [name |-> "MANDELBROT", klass |-> "TEMP", seq |-> 1, type |-> "MA"],
       [name |-> "NONAME", klass |-> "TEMP", seq |-> 2, type |-> "UV"] >>

Slots == 1..Len(CatEntries)

\* proxy.AIPSCat.cat(disk, userno): the entries present, in slot order.
Cat(cat) == SelectSeq([c \in Slots |-> c], LAMBDA c : c \in cat)

\* Python's truth value of a filter.
Truthy(v) ==
    CASE v.t = "none" -> FALSE
      [] v.t = "str" -> v.s # ""
      [] v.t = "list" -> v.l # <<>>
      [] OTHER -> v.n # 0

\* The loop of AIPSCat.zap over the entries of self._cat[disk], on the
\* catalogue cat: the data object of every entry that passes the filters is
\* zapped; zapping an entry that is no longer in the catalogue fails in the
\* backend, which ends the loop.
RECURSIVE ZapEntries(_, _, _, _, _)
ZapEntries(entries, cat, name, klass, seq) ==
    IF entries = <<>> THEN [err |-> "none", keys |-> {}, cat |-> cat]
    ELSE LET cno == Head(entries)
             entry == CatEntries[cno]
         IN  IF Truthy(name) /\ ~PyEq(PyStr(entry.name), name)
             THEN ZapEntries(Tail(entries), cat, name, klass, seq)
             ELSE IF Truthy(klass) /\ ~PyEq(PyStr(entry.klass), klass)
             THEN ZapEntries(Tail(entries), cat, name, klass, seq)
             ELSE IF Truthy(seq) /\ ~PyEq(PyInt(entry.seq), seq)
             THEN ZapEntries(Tail(entries), cat, name, klass, seq)
             ELSE IF entry.type \notin {"MA", "UV"}
             THEN ZapEntries(Tail(entries), cat, name, klass, seq)
             ELSE IF cno \notin cat
             THEN [err |-> "backend error", keys |-> {}, cat |-> cat]
             ELSE ZapEntries(Tail(entries), cat \ {cno}, name, klass, seq)

\* kwargs.pop(key, None)
Pop(kw, key) == IF key \in DOMAIN kw THEN kw[key] ELSE PyNone

\* (mutant) keywords zap does not know are ignored.
ZapResultUnchecked(entries, cat, kw) ==
    ZapEntries(entries, cat, Pop(kw, "name"), Pop(kw, "klass"), Pop(kw, "seq"))

\* AIPSCat.zap(**kw) of an AIPSCat object with the given entries, on the
\* catalogue cat; kw are the keywords of the call, force among them.
ZapResult(entries, cat, kw) ==
    LET kwargs == DOMAIN kw \ {"force", "name", "klass", "seq"}
    IN  IF Cardinality(kwargs) > 0
        THEN [err |-> "TypeError", keys |-> kwargs, cat |-> cat]
        ELSE ZapEntries(entries, cat, Pop(kw, "name"), Pop(kw, "klass"), Pop(kw, "seq"))

CInit ==
    /\ catalogue = {}
    /\ _cat = <<>>
    /\ zlast = [op |-> "none", err |-> "none", keys |-> {}]

\* A task's go() writes its output to the catalogue, in a free slot.
Go(cno) ==
    /\ cno \notin catalogue
    /\ catalogue' = catalogue \cup {cno}
    /\ zlast' = [op |-> "go", err |-> "none", keys |-> {}]
    /\ UNCHANGED _cat

\* AIPSCat(disk)
NewCat ==
    /\ _cat' = Cat(catalogue)
    /\ zlast' = [op |-> "cat", err |-> "none", keys |-> {}]
    /\ UNCHANGED catalogue

\* zap(**kw) of the AIPSCat object
Zap(kw) ==
    LET r == ZapResult(_cat, catalogue, kw)
    IN  /\ catalogue' = r.cat
        /\ zlast' = [op |-> "zap", err |-> r.err, keys |-> r.keys]
        /\ UNCHANGED _cat

\* Keywords of a call of zap, and the values given for each.
ZapKeys == {"force", "name", "klass", "seq", "klaas"}

KeyValues(key) ==
    CASE key = "force" -> {PyBool(TRUE)}
      [] key = "name" -> {PyStr("MANDELBROT")}
      [] key = "seq" -> {PyInt(2), PyInt(0)}
      [] OTHER -> {PyStr("TEMP")}

KwArgs ==
    UNION { {kw \in [K -> {PyBool(TRUE), PyStr("MANDELBROT"), PyStr("TEMP"), PyInt(2), PyInt(0)}] :
                \A key \in K : kw[key] \in KeyValues(key)} : K \in SUBSET ZapKeys }

CatNext ==
    \/ \E cno \in Slots : Go(cno) /\ UNCHANGED besidesCat
    \/ NewCat /\ UNCHANGED besidesCat
    \/ \E kw \in KwArgs : Zap(kw) /\ UNCHANGED besidesCat

\* C18: zap called with a keyword other than force, name, klass and seq
\* raises TypeError naming the unexpected keywords, and the catalogue is as
\* it was before the call.
C18_TypoZapsNothing ==
    [][\A kw \in KwArgs :
        (zlast'.op = "zap" /\ DOMAIN kw \ {"force", "name", "klass", "seq"} # {} /\ Zap(kw)) =>
            /\ zlast'.err = "TypeError"
            /\ zlast'.keys = DOMAIN kw \ {"force", "name", "klass", "seq"}
            /\ catalogue' = catalogue
      ]_cvars

\* C18 witness: zap(klaas=...) has raised TypeError on an AIPSCat object
\* listing the entry of class TEMP, which is still in the catalogue.
C18_Witness ==
    /\ zlast.op = "zap" /\ zlast.err = "TypeError" /\ zlast.keys = {"klaas"}
    /\ \E i \in 1..Len(_cat) : _cat[i] = 2
    /\ 2 \in catalogue

(***************************************************************************)
(* Visibilities (Wizardry/AIPSData.py): a slice of a uv data set and the   *)
(* iterator over it, which reads the data through a buffer of the backend. *)
(***************************************************************************)
\* len(data): the number of visibilities of the data set.
NVis == 4

\* A bound or step of a slice: None, or an integer n as <<n>>.
None == <<>>

\* Python's truth value of a bound: None and 0 are false.
Given(x) == x # None /\ x[1] # 0

\* _AIPSVisibilitySlice.__init__(data, slice(a, b, step))
SliceRanges(a, b, step) ==
    LET start == IF Given(a) THEN (IF a[1] < 0 THEN NVis + a[1] ELSE a[1]) ELSE 0
        stop == IF Given(b) THEN (IF b[1] < 0 THEN NVis + b[1] ELSE b[1]) ELSE NVis
    IN  IF Given(step) /\ step[1] # 1
        THEN [err |-> "NotImplementedError", ranges |-> <<>>]
        ELSE [err |-> "none", ranges |-> << <<start, stop>> >>]

\* data.Open: reading starts at the first visibility.
UVOpen(u) == [u EXCEPT !.firstVis = 0, !.numVisBuff = 0, !.pos = 0]

\* AIPSUVData.__getitem__, its first statement: the data set is opened by
\* the first access (self._open), with a buffer of nVisPIO visibilities.
Opened(u, nVisPIO) ==
    IF u.open THEN u
    ELSE [open |-> TRUE, firstVis |-> 0, numVisBuff |-> 0, pos |-> 0, nVisPIO |-> nVisPIO,
          isErr |-> u.isErr]

\* Obit.UVRead(data, err): the next nVisPIO visibilities, or what is left of
\* the data, are read into the buffer; firstVis is the one-based number of
\* the first.  Reading at the end of the data is an error of the backend,
\* left in the error object err; with an error there already the backend
\* returns at once.  Nothing in the program clears the error object of a
\* data set.
UVRead(u) ==
    LET n == Min(u.nVisPIO, NVis - u.pos)
    IN  IF u.isErr THEN u
        ELSE IF u.pos >= NVis THEN [u EXCEPT !.isErr = TRUE]
        ELSE [u EXCEPT !.firstVis = u.pos + 1, !.numVisBuff = n, !.pos = u.pos + n]

\* _AIPSVisibility._fill() of iterator it on data set u.  After update()
\* the buffer is written back first: the assertion on _first, then
\* Obit.UVRewrite, which leaves the reader where it is and returns at once
\* when the error object holds an error.  Then Obit.UVRead, and ObitError
\* when the error object holds an error after it.
Fill(s) ==
    LET u == UVRead(s.u)
    IN  IF s.it._flush /\ s.it._first # s.u.firstVis - 1
        THEN [s EXCEPT !.err = "AssertionError"]
        ELSE IF s.it._flush /\ s.u.isErr THEN [s EXCEPT !.err = "ObitError"]
        ELSE IF u.isErr
        THEN [s EXCEPT !.u = u, !.err = "ObitError", !.it = [@ EXCEPT !._flush = FALSE]]
        ELSE [s EXCEPT !.u = u,
                       !.it = [@ EXCEPT !._first = u.firstVis - 1,
                                        !._count = u.numVisBuff,
                                        !._index = 0,
                                        !._flush = FALSE]]

\* while self._first + self._count < self._range[0]: self._fill()
RECURSIVE FillWhile(_)
FillWhile(s) ==
    IF s.err = "none" /\ s.it._first + s.it._count < s.it._range[1]
    THEN FillWhile(Fill(s))
    ELSE s

\* _AIPSVisibilityIter.__next__ of iterator it on data set u: the iterator
\* and the data set afterwards, and whether it returned (a visibility),
\* raised StopIteration or failed.
NextVis(it, u) ==
    LET s1 == [it |-> [it EXCEPT !._index = it._index + 1], u |-> u, err |-> "none"]
        s2 == IF s1.it._index + s1.it._first > s1.it._range[2] /\ s1.it._ranges # <<>>
              THEN [s1 EXCEPT !.it = [@ EXCEPT !._range = Head(s1.it._ranges),
                                               !._ranges = Tail(s1.it._ranges)]]
              ELSE s1
        s3 == FillWhile(s2)
        s4 == IF s3.it._index + s3.it._first < s3.it._range[1]
              THEN [s3 EXCEPT !.it = [@ EXCEPT !._index = s3.it._range[1] - s3.it._first]]
              ELSE s3
    IN  IF s3.err # "none" THEN s3
        ELSE IF s4.it._index + s4.it._first >= s4.it._range[2]
        THEN \* after update() Obit.UVWrite comes first
             IF s4.it._flush /\ s4.u.isErr THEN [s4 EXCEPT !.err = "ObitError"]
             ELSE [s4 EXCEPT !.err = "StopIteration", !.it = [@ EXCEPT !._flush = FALSE]]
        ELSE IF s4.it._index >= s4.it._count THEN Fill(s4)
        ELSE s4

\* shared: the iterator's _ranges is the list of the slice or selection.
NoIter == [state |-> "none", _first |-> 0, _count |-> 0, _index |-> 0 - 1,
           _range |-> <<0, 0>>, _ranges |-> <<>>, _flush |-> FALSE, shared |-> FALSE]

\* The most accesses of a run besides taking a slice or selection and
\* iterating over it: data[index], data.tables, iter(data) and update().
MaxReads == 1

NoVis == [n |-> 0, index |-> 0 - 1, err |-> "none"]

WInit ==
    /\ vslice = [a |-> None, b |-> None, nx |-> <<>>, err |-> "no slice", _ranges |-> <<>>]
    /\ viter = NoIter
    /\ uv = [open |-> FALSE, firstVis |-> 0, numVisBuff |-> 0, pos |-> 0, nVisPIO |-> 1,
             isErr |-> FALSE]
    /\ yielded = <<>>
    /\ vis = NoVis

\* data[a:b:step]; the first access opens the data set, with a buffer of
\* nVisPIO visibilities.  The program takes one slice: the step is taken
\* while no slice is held.
GetSlice(a, b, step, nVisPIO) ==
    LET r == SliceRanges(a, b, step)
    IN  /\ vslice.err # "none"
        /\ uv.open => nVisPIO = uv.nVisPIO
        /\ vslice' = [a |-> a, b |-> b, nx |-> <<>>, err |-> r.err, _ranges |-> r.ranges]
        /\ viter' = NoIter
        /\ uv' = Opened(uv, nVisPIO)
        /\ yielded' = <<>>
        /\ UNCHANGED vis

\* data[index] for an integer index: _AIPSVisibility.__init__(data, err,
\* index).  For an index of -1 or less nothing is read.  Otherwise the
\* buffer is kept if it holds the visibility, and else _fill(index) sets
\* IODesc firstVis (for an index other than 0) and calls Obit.UVRead.  The
\* backend is not part of the repository: where it reads after firstVis was
\* set is its choice, at (a reader that ignores the request reads at pos),
\* and _fill raises ObitError when the error object holds an error after
\* the read, as in Fill.  The object returned has _first = firstVis - 1 and
\* _index = index - _first.
GetVis(index, nVisPIO, at) ==
    LET u0 == Opened(uv, nVisPIO)
        first == u0.firstVis - 1
        held == first >= 0 /\ index >= first /\ index < first + u0.numVisBuff
        u1 == IF index # 0 /\ ~u0.isErr THEN [u0 EXCEPT !.pos = at] ELSE u0
        u2 == IF index < 0 \/ held THEN u0 ELSE UVRead(u1)
    IN  /\ vis.n < MaxReads
        /\ uv.open => nVisPIO = uv.nVisPIO
        /\ (index <= 0 \/ held \/ u0.isErr) => at = u0.pos
        /\ uv' = u2
        /\ vis' = [n |-> vis.n + 1, index |-> index,
                   err |-> IF index >= 0 /\ ~held /\ u2.isErr
                           THEN "ObitError" ELSE "none"]
        /\ UNCHANGED <<vslice, viter, yielded>>

\* iter(slice): _AIPSVisibilitySlice.__iter__ hands its own _ranges list to
\* _AIPSVisibilityIter.__init__, which pops the first range from it.
Iter ==
    /\ vslice.err = "none"
    /\ LET ranges == IF vslice._ranges = <<>> THEN << <<0, NVis>> >> ELSE vslice._ranges
       IN  /\ viter' = [NoIter EXCEPT !.state = "active", !._range = Head(ranges),
                                      !._ranges = Tail(ranges),
                                      !.shared = vslice._ranges # <<>>]
           /\ vslice' = [vslice EXCEPT !._ranges = IF vslice._ranges = <<>> THEN <<>>
                                                   ELSE Tail(ranges)]
    /\ uv' = IF uv.firstVis > 0 THEN UVOpen(uv) ELSE uv
    /\ yielded' = <<>>
    /\ UNCHANGED vis

\* next(iterator).  The iterator's _ranges is the list of the slice or
\* selection it was made from: a range popped by __next__ is gone from
\* both.
Next_ ==
    /\ viter.state = "active"
    /\ LET s == NextVis([f \in DOMAIN viter \ {"state"} |-> viter[f]], uv)
           it == [f \in DOMAIN viter |-> IF f = "state" THEN "active" ELSE s.it[f]]
       IN  /\ uv' = s.u
           /\ IF s.err = "none"
              THEN /\ viter' = it
                   /\ yielded' = Append(yielded, s.it._first + s.it._index)
              ELSE /\ viter' = [it EXCEPT !.state = IF s.err = "StopIteration"
                                                    THEN "stopped" ELSE "failed"]
                   /\ yielded' = yielded
           /\ vslice' = IF viter.shared THEN [vslice EXCEPT !._ranges = s.it._ranges]
                        ELSE vslice
    /\ UNCHANGED vis

\* iter(data): AIPSUVData.__iter__ opens the data set on the first access
\* and returns an iterator over all of it, with a list of ranges of its own.
IterData(nVisPIO) ==
    LET u == Opened(uv, nVisPIO)
    IN  /\ vis.n < MaxReads
        /\ uv.open => nVisPIO = uv.nVisPIO
        /\ uv' = IF u.firstVis > 0 THEN UVOpen(u) ELSE u
        /\ viter' = [NoIter EXCEPT !.state = "active", !._range = <<0, NVis>>]
        /\ yielded' = <<>>
        /\ vis' = [vis EXCEPT !.n = vis.n + 1]
        /\ UNCHANGED vslice

\* data.tables: _generate_tables opens the data set again, whether the
\* program has read from it or not.
Tables ==
    /\ vis.n < MaxReads
    /\ uv' = IF uv.open THEN UVOpen(uv) ELSE uv
    /\ vis' = [vis EXCEPT !.n = vis.n + 1]
    /\ UNCHANGED <<vslice, viter, yielded>>

\* visibility.update() on the visibility the iterator has returned, which
\* is the iterator: self._flush = True
Update ==
    /\ vis.n < MaxReads
    /\ viter.state = "active"
    /\ viter' = [viter EXCEPT !._flush = TRUE]
    /\ vis' = [vis EXCEPT !.n = vis.n + 1]
    /\ UNCHANGED <<vslice, uv, yielded>>

\* Inputs.
SliceBounds == {None} \cup {<<n>> : n \in (0 - NVis)..NVis}
Steps == {None, <<1>>, <<2>>}
BufferSizes == 1..(NVis + 1)
VisKeys == {0 - 1, 0, NVis - 1}

VisNext ==
    \/ \E a \in SliceBounds, b \in SliceBounds, step \in Steps, n \in BufferSizes :
          GetSlice(a, b, step, n) /\ UNCHANGED besidesVis
    \/ \E index \in VisKeys, n \in BufferSizes, at \in 0..NVis :
          GetVis(index, n, at) /\ UNCHANGED besidesVis
    \/ Iter /\ UNCHANGED besidesVis
    \/ Next_ /\ UNCHANGED besidesVis
    \/ \E n \in BufferSizes : IterData(n) /\ UNCHANGED besidesVis
    \/ Tables /\ UNCHANGED besidesVis
    \/ Update /\ UNCHANGED besidesVis

\* The bounds of data[a:b] as slices are read: a negative bound is taken
\* relative to len(data), a missing start is 0, a missing stop len(data).
StartOf(a) == IF a = None THEN 0 ELSE IF a[1] < 0 THEN NVis + a[1] ELSE a[1]
StopOf(b) == IF b = None THEN NVis ELSE IF b[1] < 0 THEN NVis + b[1] ELSE b[1]

\* The indices lo, lo + 1, ..., hi - 1.
Indices(lo, hi) == [i \in 1..(hi - lo) |-> lo + i - 1]

\* C19: iterating data[a:b] yields the visibilities start..stop-1, each once
\* and in ascending order, and then stops, for every buffer size: what an
\* iteration has returned so far is a prefix of start..stop-1, and all of
\* it once the iteration has stopped.  (Of the runs in which the program
\* reads the data through the slice only, vis.n = 0.)
C19_SliceIteration ==
    (vslice.err = "none" /\ viter.state # "none" /\ vis.n = 0
        /\ StartOf(vslice.a) <= StopOf(vslice.b)) =>
        LET all == Indices(StartOf(vslice.a), StopOf(vslice.b))
        IN  /\ viter.state # "failed"
            /\ Len(yielded) <= Len(all)
            /\ yielded = SubSeq(all, 1, Len(yielded))
            /\ viter.state = "stopped" => yielded = all

(***************************************************************************)
(* Further properties of the supervisor (Proxy/Task.py).                   *)
(***************************************************************************)
\* C23: abort(tid, sig) signals the process spawn started for tid and no
\* other process or process group: after an abort of a recorded task, the
\* signal has gone to the child and not to the supervisor's own group.
C23_SignalOnlyChild ==
    (plast.op = "abort" /\ plast.err # "KeyError") => plast.kill = "child"

\* A caller that polls: tasks are spawned, their children run and end, and
\* the caller calls messages and finished, over and over, for every task.
PollNext ==
    \/ \E pathOk \in BOOLEAN : Spawn(pathOk) /\ UNCHANGED besidesProc
    \/ \E p \in Pids : ChildExec(p) /\ UNCHANGED besidesProc
    \/ \E p \in Pids, chunk \in Chunks : ChildWrite(p, chunk) /\ UNCHANGED besidesProc
    \/ \E p \in Pids : ChildCloseTty(p) /\ UNCHANGED besidesProc
    \/ \E p \in Pids, flag \in BOOLEAN : ChildSetEcho(p, flag) /\ UNCHANGED besidesProc
    \/ \E p \in Pids, status \in {"exited", "signaled"} : ChildExit(p, status) /\ UNCHANGED besidesProc
    \/ \E tid \in Tids : Finished(tid) /\ UNCHANGED besidesProc
    \/ \E tid \in Tids : Messages(tid) /\ UNCHANGED besidesProc

\* The loop "while not finished(tid): messages(tid)" keeps calling both.
PollFairness ==
    \A tid \in Tids :
        /\ WF_vars(Messages(tid) /\ UNCHANGED besidesProc)
        /\ WF_vars(Finished(tid) /\ UNCHANGED besidesProc)

\* C24: once the child of a task has terminated, repeated calls of
\* messages(tid) lead to finished(tid) being true, whether the read of the
\* hung-up terminal raises an error or returns nothing.
C24_PollingTerminates ==
    \A tid \in Tids :
        (Running(tid) /\ child[_pid[tid]].pc = "zombie") ~> Done(tid)

(***************************************************************************)
(* More properties of the list attributes, checked under SpecList.         *)
(***************************************************************************)
\* C22 (as claimed): an accepted a[low:high] = seq with fewer elements than
\* the positions low..high-1 leaves a list of the same length in which
\* every position from low + len(seq) to high - 1 holds the default the
\* attribute was declared with.
C22_SliceRefill ==
    \A a \in ListAttrs, low \in Bounds, high \in Bounds, seq \in Seqs :
        LET r == SliceAssign(plain, a, store[a], low, high, PyList(seq))
        IN  (Len(seq) < high - low /\ r.err = "none") =>
                /\ Len(r.val.l) = Len(store[a].l)
                /\ \A p \in (low + Len(seq) + 1)..Min(high, Len(r.val.l)) :
                        r.val.l[p] = MyTask[a].l[p]

\* Which elements of a list, and of the lists in it, are None.
RECURSIVE NoneShape(_)
NoneShape(v) ==
    [none |-> v.t = "none",
     sub |-> IF v.t = "list" THEN [i \in 1..Len(v.l) |-> NoneShape(v.l[i])] ELSE <<>>]

\* Lists as List.__init__ builds them, with None elsewhere than at index 0
\* and in a list of the list.
SentinelLists ==
    {ListInit(PyList(<<PyInt(1), PyNone, PyList(<<PyNone, PyInt(2)>>)>>)),
     ListInit(PyList(<<PyNone, PyList(<<PyInt(1), PyNone>>), PyNone>>))}

\* Elements and sequences assigned to them.
SentinelItems ==
    Items \cup {PyList(<<PyNone>>), PyList(<<PyNone, PyInt(1)>>),
                PyList(<<PyInt(1), PyNone>>), PyList(<<PyNone, PyNone>>)}

SentinelSeqs ==
    Seqs \cup {<<x>> : x \in SentinelItems}
         \cup {<<PyInt(1), PyNone, x>> : x \in SentinelItems}
         \cup {<<PyNone, x, PyNone>> : x \in SentinelItems}
         \cup {<<PyInt(1), PyNone>>, <<PyNone, PyNone>>, <<PyNone, PyNone, PyNone>>}

\* An assignment to lst, the list attribute a is, by index, by slice and as
\* a whole, never changes which elements are None.
KeepsSentinels(a, lst) ==
    /\ \A key \in Keys, item \in SentinelItems :
            LET r == ItemAssign(plain, a, lst, key, item)
                idx == IF key < 0 THEN key + Len(lst.l) ELSE key
            IN  /\ NoneShape(r.val) = NoneShape(lst)
                /\ (0 <= idx /\ idx < Len(lst.l)) =>
                    /\ (lst.l[idx + 1] = PyNone /\ item # PyNone) => r.err # "none"
                    /\ (lst.l[idx + 1] = PyNone /\ item = PyNone) => r.err = "none"
                    /\ (lst.l[idx + 1] # PyNone /\ item = PyNone) => r.err = "TypeError:type"
    /\ \A start \in Bounds, stop \in Bounds, seq \in SentinelSeqs :
            NoneShape(SliceAssign(plain, a, lst, start, stop, PyList(seq)).val) = NoneShape(lst)
    /\ \A seq \in SentinelSeqs :
            LET r == _validateattr(a, PyList(seq), lst)
            IN  r.err = "none" => NoneShape(r.val) = NoneShape(lst)

\* C25 (as claimed): the elements of a list attribute that are None, at
\* every index and in the lists within it, are the same in every state: an
\* element that is None is only ever assigned None, and assigning None to an
\* element that is not None raises the invalid-type TypeError; so for the
\* attributes of the task and for lists with None at other indices and one
\* level down.
C25_SentinelPositions ==
    /\ \A a \in ListAttrs :
            /\ NoneShape(store[a]) = NoneShape(MyTask[a])
            /\ KeepsSentinels(a, store[a])
    /\ \A lst \in SentinelLists : KeepsSentinels("bparms", lst)

\* The object Task._validateattr returns, by identity: the object it was
\* given as value, or the List it made for a list value and a list default
\* (validated_value, a copy of default that shares no list with it).
ValidatedObject(attr, value, default) ==
    IF StartsWith(attr, "_") THEN "value"
    ELSE IF value.t = "none" /\ default.t = "none" THEN "value"
    ELSE IF value.t = "list" /\ default.t = "list" THEN "validated_value"
    ELSE IF IsInstance(value, "int") /\ default.t = "float" THEN "float(value)"
    ELSE "value"

\* C26: an accepted my_task.a = v for a list attribute a of L elements and
\* a list v of fewer leaves a list of L elements: the first
\* len(v) are the elements of v as validated (an int for a float is the
\* float), the others are what they were before the assignment, whatever
\* a was declared with; and the list stored is the one made by the
\* validation, neither v nor the list stored before.
C26_ShortListAssignment ==
    \A a \in ListAttrs, seq \in Seqs :
        LET r == SetAttrResult(store, a, PyList(seq))
        IN  (Len(seq) < Len(store[a].l) /\ r.err = "none") =>
                /\ Len(r.val[a].l) = Len(store[a].l)
                /\ \A p \in 1..Len(store[a].l) :
                        r.val[a].l[p] = IF p <= Len(seq)
                                        THEN Coerce(seq[p], store[a].l[p])
                                        ELSE store[a].l[p]
                /\ ValidatedObject(a, PyList(seq), store[a]) = "validated_value"

\* C26 witness: a whole-list assignment to aparms has just been accepted and
\* aparms is [1.0, 0.0, 1.0, ...]: the list assigned had one element at most
\* (the lists assigned are all 1), and the elements from index 2 on kept
\* the 1.0 they held, not the 0.0 they were declared with.
C26_Witness ==
    /\ last.op = "set" /\ last.attr = "aparms" /\ last.err = "none"
    /\ store.aparms = PyList([p \in 1..ListLen |->
                                IF p = 2 THEN PyFloat(0) ELSE PyFloat(1)])

\* C28: a request calls something only when its name starts with AIPS and
\* has exactly one dot, and what it calls is then a method of one of the
\* four target objects, the one the name gives; a request with any other
\* name (os.system and _dispatch.__call__ among them) ends with
\* AttributeError, has no result and calls nothing.  (A request that passes
\* the test ends with AttributeError when the name finds no method, and
\* with TypeError when the arguments do not fit the method.)
C28_DispatchGate ==
    [][\A name \in WireNames, args \in WireArgs :
        (dlast'.name = name /\ dlast'.args = args /\ Dispatch(name, args)) =>
            IF StartsWith(name, "AIPS") /\ Count(name, ".") = 1
            THEN /\ dlast'.err \in {"none", "AttributeError", "TypeError"}
                 /\ dlast'.err = "none" =>
                        /\ Split(name, ".")[1] \in Targets
                        /\ invoked' = invoked \cup
                                {<<Split(name, ".")[1], Split(name, ".")[2], args>>}
                 /\ dlast'.err # "none" => invoked' = invoked
                 /\ \A c \in invoked' : c[1] \in Targets
            ELSE /\ dlast'.err = "AttributeError"
                 /\ dlast'.val = <<>>
                 /\ invoked' = invoked
      ]_dvars

\* C28 witness: the request _dispatch.__call__, which names a callable of
\* the server object itself, has just been refused, after AIPSImage.exists
\* had been called, and nothing else was called.
C28_Witness ==
    /\ dlast.name = "_dispatch.__call__" /\ dlast.err = "AttributeError"
    /\ invoked = {<<"AIPSImage", "exists", <<"desc">>>>}

(***************************************************************************)
(* The disk of a data object: objects made, copied and moved to other      *)
(* disks, with disk numbers inside and outside the table AIPS.disks.       *)
(***************************************************************************)
\* Disk numbers assigned: the disks of the table, 0 (AIPS.disks[0] is
\* None) and a number beyond the table.
DiskNumbers == {0, 1, 2, 9}

DiskNext ==
    \/ \E o \in ObjIds, cls \in Classes, args \in NewArgs :
          New(o, cls, args) /\ UNCHANGED besidesData
    \/ \E o \in ObjIds : Copy(o, Other(o)) /\ UNCHANGED besidesData
    \/ \E o \in ObjIds, disk \in DiskNumbers : SetDisk(o, disk) /\ UNCHANGED besidesData

\* The disk number, the descriptor and the proxy of the object bound to o
\* are those of one entry of AIPS.disks.
DiskAgrees(o) ==
    LET d == DiskLookup(objs[o]._disk)
    IN  /\ d.err = "none"
        /\ Desc(o).disk = d.disk
        /\ objs[o].proxy = DiskProxy(objs[o]._disk)

\* C27 (as claimed): after every step the disk number, the descriptor's disk
\* and the proxy of every data object are those of one entry of AIPS.disks,
\* and an assignment o.disk = d that raises changes no object and no
\* descriptor.
C27_DiskAgrees ==
    [][/\ \A o \in ObjIds : objs'[o] # NoObj => DiskAgrees(o)'
       /\ (alast'.op = "set" /\ alast'.err # "none") => UNCHANGED <<objs, descs>>
      ]_avars

(***************************************************************************)
(* Calls through a data object (AIPSData.py): obj.m fetched, then called.  *)
(***************************************************************************)
\* The most calls the proxy receives.
MaxCalls == 2

\* Methods the class _AIPSData defines itself (two of them): normal lookup
\* finds them and __getattr__ is not called.
ClassAttrs == {"zap", "exists"}

\* The fields of the descriptor: desc.__dict__
DescFields == DOMAIN NoDesc

\* What getattr(getattr(proxy, cls), name) finds (some of the methods of
\* Proxy/AIPSData.py).
ProxyMethods(cls) ==
    {"exists", "zap", "keywords_table", "version_table", "_len"}

NoBound == [kind |-> "none", inst |-> "none", name |-> ""]
NoForward == [desc |-> NoDesc, args |-> <<>>]
NoProxyCall == [proxy |-> "none", cls |-> "none", name |-> "", fwd |-> NoForward]
NoMCall == [op |-> "none", name |-> "", args |-> <<>>, err |-> "none", res |-> "none",
            call |-> NoProxyCall, n |-> 0]

MInit ==
    /\ bound = NoBound
    /\ pcalls = 0
    /\ mlast = NoMCall

\* What the proxy's method does with the call is its own: it returns a
\* result or raises.
Outcomes == {[err |-> "none", res |-> "result"], [err |-> "Fault", res |-> "none"]}

\* (mutant) the arguments go to the proxy without the descriptor.
ForwardedNoDesc(inst, args) == [desc |-> NoDesc, args |-> args]

\* func(self.inst.desc, *args) in _AIPSDataMethod.__call__: the descriptor
\* the object has now, then the arguments.
Forwarded(inst, args) == [desc |-> Desc(inst), args |-> args]

\* What the class's own method name passes on when called with args:
\* zap(self, force=False) passes force, exists(self) nothing.
ClassCall(name, args) ==
    IF name = "zap"
    THEN IF Len(args) > 1 THEN [err |-> "TypeError", args |-> <<>>]
         ELSE [err |-> "none", args |-> IF Len(args) = 1 THEN args ELSE <<"False">>]
    ELSE IF Len(args) > 0 THEN [err |-> "TypeError", args |-> <<>>]
         ELSE [err |-> "none", args |-> <<>>]

\* f = o.name: a method of the class, a field of the descriptor
\* (__getattr__, first branch), or an _AIPSDataMethod that holds the object
\* and the name.
GetAttribute(o, name) ==
    /\ objs[o] # NoObj
    /\ bound' = IF name \in ClassAttrs
                THEN [kind |-> "method", inst |-> o, name |-> name]
                ELSE IF name \in DescFields THEN NoBound
                ELSE [kind |-> "_AIPSDataMethod", inst |-> o, name |-> name]
    /\ mlast' = [NoMCall EXCEPT !.op = "getattr", !.name = name,
                                !.res = IF name \in ClassAttrs \/ name \notin DescFields
                                        THEN "callable" ELSE "field"]
    /\ UNCHANGED pcalls

\* f(*args) for the f fetched last: _AIPSDataMethod.__call__ looks the
\* method up on the proxy (_AIPSData._method) and calls it; the methods of
\* the class do the same with the arguments of their own.
CallBound(args, outcome) ==
    /\ bound # NoBound
    /\ pcalls < MaxCalls
    /\ LET o == bound.inst
           own == IF bound.kind = "method" THEN ClassCall(bound.name, args)
                  ELSE [err |-> "none", args |-> args]
           done == [NoMCall EXCEPT !.op = "call", !.name = bound.name, !.args = args]
       IN  IF own.err # "none"
           THEN mlast' = [done EXCEPT !.err = own.err] /\ UNCHANGED pcalls
           ELSE IF bound.name \notin ProxyMethods(objs[o].cls)
           THEN mlast' = [done EXCEPT !.err = "AttributeError"] /\ UNCHANGED pcalls
           ELSE /\ pcalls' = pcalls + 1
                /\ mlast' = [done EXCEPT !.err = outcome.err, !.res = outcome.res,
                                         !.n = 1,
                                         !.call = [proxy |-> objs[o].proxy,
                                                   cls |-> objs[o].cls,
                                                   name |-> bound.name,
                                                   fwd |-> Forwarded(o, own.args)]]
    /\ UNCHANGED bound

\* Inputs: names fetched and arguments passed.
AttrNames == {"keywords_table", "version_table", "frobnicate", "zap", "exists", "name"}
CallArgs == {<<>>, <<"True">>, <<"CL", "1">>}


\* The program of this part holds one data object.  A variable is not bound
\* to a new object while the program holds an attribute fetched from the
\* object it is bound to.
MethodObjs == {"uvdata"}

MethodNext ==
    \/ \E o \in MethodObjs, cls \in Classes, args \in NewArgs :
          bound.inst # o /\ New(o, cls, args) /\ UNCHANGED besidesData
    \/ \E o \in MethodObjs, v \in FieldValues("name") :
          SetField(o, "name", v) /\ UNCHANGED besidesData
    \/ \E o \in MethodObjs, disk \in DiskValues : SetDisk(o, disk) /\ UNCHANGED besidesData
    \/ \E o \in MethodObjs, name \in AttrNames :
          GetAttribute(o, name) /\ UNCHANGED besidesMethod
    \/ \E args \in CallArgs, outcome \in Outcomes :
          CallBound(args, outcome) /\ UNCHANGED besidesMethod

\* The call f(*args) just made reached the proxy as the claim has it: the
\* method of the name fetched, of the attribute of the proxy named as the
\* object's class, called once with the descriptor the object has at the
\* call, then args, and its outcome is the outcome of f(*args); a name the
\* proxy has no method for raises AttributeError and nothing is called.
ForwardedAsIs ==
    LET o == bound.inst
    IN  IF bound.name \in ProxyMethods(objs[o].cls)
        THEN /\ mlast'.n = 1 /\ pcalls' = pcalls + 1
             /\ mlast'.call = [proxy |-> objs[o].proxy, cls |-> objs[o].cls,
                               name |-> bound.name,
                               fwd |-> [desc |-> Desc(o), args |-> mlast'.args]]
             /\ \E outcome \in Outcomes :
                    mlast'.err = outcome.err /\ mlast'.res = outcome.res
        ELSE mlast'.n = 0 /\ pcalls' = pcalls /\ mlast'.err = "AttributeError"

\* C21 (as claimed): every call o.m(*args) for a name m that is no field of
\* the descriptor reaches the proxy as above.
C21_ForwardAny ==
    [][(mlast'.op = "call" /\ bound.name \notin DescFields) => ForwardedAsIs]_mvars

\* C21: every call o.m(*args) for a name m that is neither a field of the
\* descriptor nor a method the class defines itself reaches the proxy as
\* above: __getattr__ makes the callable, and the callable looks m up and
\* reads the descriptor when it is called.
C21_Forward ==
    [][(mlast'.op = "call" /\ bound.name \notin DescFields \cup ClassAttrs)
            => ForwardedAsIs]_mvars

\* C21 witness: keywords_table('CL', '1') has just been called through an
\* object and reached the proxy with the descriptor of the object, which
\* was given another name after it was made.
C21_Witness ==
    /\ mlast.op = "call" /\ mlast.name = "keywords_table" /\ mlast.n = 1
    /\ mlast.args = <<"CL", "1">>
    /\ bound.kind = "_AIPSDataMethod"
    /\ mlast.call.fwd.desc = Desc(bound.inst)
    /\ mlast.call.fwd.desc.name = "GARBAGE"

(***************************************************************************)
(* The rows of an extension table (Wizardry/AIPSData.py, _AIPSTable).  The *)
(* table is the backend's: ReadRow and WriteRow count rows from 1.         *)
(***************************************************************************)
\* The most rows of the table.
MaxRows == 3

RowValues == {"r1", "r2"}

NoRowAccess == [op |-> "none", key |-> 0, nrow |-> 0, rownum |-> 0, err |-> "none",
                row |-> "none"]

\* No row object: _row is "unset" while the object has no attribute _row,
\* "none" when the backend returned no row, else the row read or assigned.
NoRow == [kind |-> "none", _rownum |-> -1, _row |-> "unset"]

XInit ==
    /\ table = <<>>
    /\ isErr = FALSE
    /\ tablerow = NoRow
    /\ xlast = NoRowAccess

\* The row number _AIPSTable.__getitem__ and __setitem__ make of key for a
\* table of n rows, counted from 0.
RowNumber(n, key) == IF key < 0 THEN n - key ELSE key

\* assert not self._err.isErr, the first statement of get, set and append:
\* with an error standing the access ends there, the backend is not called.
\* Nothing on these paths clears the error.
Refused(op, key, rownum, row) ==
    /\ isErr
    /\ xlast' = [NoRowAccess EXCEPT !.op = op, !.key = key, !.nrow = Len(table),
                                    !.rownum = rownum, !.err = "AssertionError",
                                    !.row = row]
    /\ UNCHANGED <<table, isErr, tablerow>>

\* table.append(row): WriteRow(len(self) + 1, ...).  The backend writes the
\* row or sets its error: outcome is one of the two.
TableAppend(row, outcome) ==
    \/ Refused("append", 0, Len(table), row)
    \/ /\ ~isErr
       /\ Len(table) < MaxRows \/ outcome = "ObitError"
       /\ table' = IF outcome = "ObitError" THEN table ELSE Append(table, row)
       /\ isErr' = (outcome = "ObitError")
       /\ UNCHANGED tablerow
       /\ xlast' = [NoRowAccess EXCEPT !.op = "append", !.nrow = Len(table),
                                       !.rownum = Len(table), !.row = row,
                                       !.err = IF outcome = "ObitError"
                                               THEN "ObitError" ELSE "none"]

\* table[key]: _AIPSTableRow.__init__ reads row rownum + 1 (rownum is never
\* negative here).  For a row the table does not have the backend returns
\* no row (IndexError), with its error set or not, or sets its error
\* (ObitError): norow and seterr say which.  The row object is bound only
\* when its __init__ returns.
TableGetItem(key, norow, seterr) ==
    LET n == Len(table)
        rownum == RowNumber(n, key)
        absent == rownum >= n
    IN  \/ Refused("get", key, rownum, "none")
        \/ /\ ~isErr
           /\ norow \/ seterr
           /\ xlast' = [NoRowAccess EXCEPT
                           !.op = "get", !.key = key, !.nrow = n, !.rownum = rownum,
                           !.err = IF ~absent THEN "none"
                                   ELSE IF norow THEN "IndexError" ELSE "ObitError",
                           !.row = IF ~absent THEN table[rownum + 1] ELSE "none"]
           /\ isErr' = (absent /\ seterr)
           /\ tablerow' = IF absent THEN tablerow
                          ELSE [kind |-> "row", _rownum |-> rownum,
                                _row |-> table[rownum + 1]]
           /\ UNCHANGED table

\* table[key] = row: WriteRow(rownum + 1, ...).  Past the last row the
\* backend adds rows up to the one written (blank rows before it) or sets
\* its error: beyond is one of the two.
TableSetItem(key, row, beyond) ==
    LET n == Len(table)
        rownum == RowNumber(n, key)
        fails == rownum >= n /\ beyond = "ObitError"
    IN  \/ Refused("set", key, rownum, row)
        \/ /\ ~isErr
           /\ rownum < MaxRows \/ beyond = "ObitError"
           /\ table' = IF rownum < n THEN [table EXCEPT ![rownum + 1] = row]
                       ELSE IF fails THEN table
                       ELSE [i \in 1..(rownum + 1) |->
                               IF i <= n THEN table[i]
                               ELSE IF i = rownum + 1 THEN row ELSE "blank"]
           /\ isErr' = fails
           /\ UNCHANGED tablerow
           /\ xlast' = [NoRowAccess EXCEPT
                           !.op = "set", !.key = key, !.nrow = n, !.rownum = rownum,
                           !.err = IF fails THEN "ObitError" ELSE "none",
                           !.row = row]

\* iter(table): _AIPSTableIter.__init__ makes a row object with _rownum -1
\* and reads nothing.
TableIter ==
    /\ tablerow' = [kind |-> "iter", _rownum |-> -1, _row |-> "unset"]
    /\ xlast' = [NoRowAccess EXCEPT !.op = "iter", !.nrow = Len(table), !.rownum = -1]
    /\ UNCHANGED <<table, isErr>>

\* next(iterator): _rownum is counted up before the first assert; for a row
\* the table does not have the backend returns no row, and the error it may
\* have set is cleared (StopIteration), or a row with its error set, which
\* the second assert refuses: norow and seterr say which.
TableIterNext(norow, seterr) ==
    LET n == Len(table)
        rownum == tablerow._rownum + 1
        absent == rownum >= n
        row == IF ~absent THEN table[rownum + 1] ELSE IF norow THEN "none" ELSE "junk"
        err == IF isErr THEN "AssertionError"
               ELSE IF ~absent THEN "none"
               ELSE IF norow THEN "StopIteration" ELSE "AssertionError"
    IN  /\ tablerow.kind = "iter"
        /\ tablerow._rownum < MaxRows
        /\ norow \/ seterr
        /\ tablerow' = [tablerow EXCEPT !._rownum = rownum,
                                        !._row = IF isErr THEN @ ELSE row]
        /\ isErr' = (isErr \/ (absent /\ ~norow))
        /\ xlast' = [NoRowAccess EXCEPT
                        !.op = "next", !.nrow = n, !.rownum = rownum, !.err = err,
                        !.row = IF err = "none" THEN row ELSE "none"]
        /\ UNCHANGED table

\* row.field = value, _AIPSTableRow.__setattr__: self._row[key] = ... on the
\* row the object holds; an iterator not yet advanced has no _row, one that
\* has met the end holds no row.
RowSetAttr(value) ==
    LET err == IF tablerow._row = "unset" THEN "AttributeError"
               ELSE IF tablerow._row = "none" THEN "TypeError" ELSE "none"
    IN  /\ tablerow.kind # "none"
        /\ tablerow' = IF err = "none" THEN [tablerow EXCEPT !._row = value]
                       ELSE tablerow
        /\ xlast' = [NoRowAccess EXCEPT
                        !.op = "setfield", !.nrow = Len(table),
                        !.rownum = tablerow._rownum, !.err = err, !.row = value]
        /\ UNCHANGED <<table, isErr>>

\* row.update(), _AIPSTableRow.update: WriteRow(_rownum + 1, self._row).  The
\* backend writes the row or sets its error; given no row it raises or sets
\* its error: outcome is one of these.
RowUpdate(outcome) ==
    LET n == Len(table)
        rownum == tablerow._rownum
        held == tablerow._row
        err == IF isErr THEN "AssertionError"
               ELSE IF held = "unset" THEN "AttributeError"
               ELSE IF outcome = "written" THEN "none" ELSE outcome
        called == ~isErr /\ held # "unset"
    IN  /\ tablerow.kind # "none"
        /\ called => IF held = "none" THEN outcome \in {"TypeError", "ObitError"}
                                      ELSE outcome \in {"written", "ObitError"}
        /\ table' = IF err # "none" THEN table
                    ELSE IF rownum < n THEN [table EXCEPT ![rownum + 1] = held]
                    ELSE [i \in 1..(rownum + 1) |->
                            IF i <= n THEN table[i]
                            ELSE IF i = rownum + 1 THEN held ELSE "blank"]
        /\ isErr' = (isErr \/ (called /\ outcome = "ObitError"))
        /\ xlast' = [NoRowAccess EXCEPT
                        !.op = "update", !.nrow = n, !.rownum = rownum, !.err = err,
                        !.row = IF held = "unset" THEN "none" ELSE held]
        /\ UNCHANGED tablerow

RowKeys == (0 - MaxRows)..MaxRows

TableNext ==
    \/ TableIter /\ UNCHANGED besidesTable
    \/ \E norow \in BOOLEAN, seterr \in BOOLEAN :
          TableIterNext(norow, seterr) /\ UNCHANGED besidesTable
    \/ \E value \in RowValues : RowSetAttr(value) /\ UNCHANGED besidesTable
    \/ \E outcome \in {"written", "ObitError", "TypeError"} :
          RowUpdate(outcome) /\ UNCHANGED besidesTable
    \/ \E row \in RowValues, outcome \in {"written", "ObitError"} :
          TableAppend(row, outcome) /\ UNCHANGED besidesTable
    \/ \E key \in RowKeys, norow \in BOOLEAN, seterr \in BOOLEAN :
          TableGetItem(key, norow, seterr) /\ UNCHANGED besidesTable
    \/ \E key \in RowKeys, row \in RowValues, beyond \in {"extended", "ObitError"} :
          TableSetItem(key, row, beyond) /\ UNCHANGED besidesTable

\* C30 (as claimed): reading or writing table[k] for -n <= k < 0, n the
\* number of rows, addresses the row n + k, one of the rows 0..n-1.
C30_NegativeKey ==
    (xlast.op \in {"get", "set"} /\ xlast.key < 0 /\ 0 - xlast.nrow <= xlast.key) =>
        /\ xlast.rownum = xlast.nrow + xlast.key
        /\ 0 <= xlast.rownum /\ xlast.rownum < xlast.nrow

(***************************************************************************)
(* The visibilities of one source (Wizardry/AIPSData.py,                   *)
(* _AIPSVisibilitySel): the index table NX gives, for each scan of the     *)
(* source, the numbers of its first and last visibility, counted from 1.   *)
(***************************************************************************)
\* The rows of the index table for one source: one scan or two, one after
\* the other, as <<start_vis, end_vis>>.
Scans == {r \in (1..NVis) \X (1..NVis) : r[1] <= r[2]}

IndexTables ==
    {<<r>> : r \in Scans} \cup
    {<<p[1], p[2]>> : p \in {q \in Scans \X Scans : q[1][2] < q[2][1]}}

\* _AIPSVisibilitySel.__init__: the ranges made of the rows of the source
SelRanges(nx) == [i \in 1..Len(nx) |-> <<nx[i][1] - 1, nx[i][2] - 1>>]

\* A uv data set with a buffer of nVisPIO visibilities is opened, and
\* data[source] taken for a source with the index table rows nx; as
\* GetSlice, only while no selection is held.
GetSelection(nx, nVisPIO) ==
    /\ vslice.err # "none"
    /\ uv.open => nVisPIO = uv.nVisPIO
    /\ vslice' = [a |-> None, b |-> None, nx |-> nx, err |-> "none",
                  _ranges |-> SelRanges(nx)]
    /\ viter' = NoIter
    /\ uv' = Opened(uv, nVisPIO)
    /\ yielded' = <<>>
    /\ UNCHANGED vis

SelNext ==
    \/ \E nx \in IndexTables, n \in BufferSizes :
          GetSelection(nx, n) /\ UNCHANGED besidesVis
    \/ \E index \in VisKeys, n \in BufferSizes, at \in 0..NVis :
          GetVis(index, n, at) /\ UNCHANGED besidesVis
    \/ Iter /\ UNCHANGED besidesVis
    \/ Next_ /\ UNCHANGED besidesVis
    \/ \E n \in BufferSizes : IterData(n) /\ UNCHANGED besidesVis
    \/ Tables /\ UNCHANGED besidesVis
    \/ Update /\ UNCHANGED besidesVis

\* The indices (from 0) of the visibilities of the scans nx, in order.
RECURSIVE ScanIndices(_)
ScanIndices(nx) ==
    IF nx = <<>> THEN <<>>
    ELSE Indices(nx[1][1] - 1, nx[1][2]) \o ScanIndices(Tail(nx))

\* C29 (as claimed): iterating data[source] yields the visibilities
\* start_vis..end_vis of every scan of the source, scan after scan, and then
\* stops: what an iteration has returned so far is a prefix of them, and all
\* of them once the iteration has stopped.  (Of the runs in which the
\* program reads the data through the selection only, vis.n = 0.)
C29_SelectionIteration ==
    (vslice.nx # <<>> /\ viter.state # "none" /\ vis.n = 0) =>
        LET all == ScanIndices(vslice.nx)
        IN  /\ viter.state # "failed"
            /\ Len(yielded) <= Len(all)
            /\ yielded = SubSeq(all, 1, Len(yielded))
            /\ viter.state = "stopped" => yielded = all

(***************************************************************************)
(* The specifications, one for each part of the program: the supervisor    *)
(* with its children, the task's attributes assigned and read by name, its *)
(* list attributes, the server's dispatch, the data objects, the           *)
(* catalogue, the visibilities of a slice and of a source, the disks, the  *)
(* calls through a data object, the rows of a table, and the polling loop. *)
(***************************************************************************)
\* A supervisor without tasks and a task with its declared values.
Init == PInit /\ TInit /\ DInit /\ AInit /\ CInit /\ WInit /\ MInit /\ XInit

\* The same on the platform where the read of a hung-up terminal raises
\* OSError (the one messages reaps on).  SpecPoll covers both platforms.
InitTask ==
    PInit /\ ptyEnd = "error" /\ TInit /\ DInit /\ AInit /\ CInit /\ WInit /\ MInit /\ XInit

SpecProc == InitTask /\ [][PNext]_vars

SpecParam == InitTask /\ [][TaskNext]_vars

SpecList == InitTask /\ [][ListNext]_vars

SpecDispatch == InitTask /\ [][DispatchNext]_vars

SpecData == InitTask /\ [][DataNext]_vars

SpecCat == InitTask /\ [][CatNext]_vars

SpecVis == InitTask /\ [][VisNext]_vars

SpecSel == InitTask /\ [][SelNext]_vars

SpecDisk == InitTask /\ [][DiskNext]_vars

SpecMethod == InitTask /\ [][MethodNext]_vars

SpecTable == InitTask /\ [][TableNext]_vars

SpecPoll == Init /\ [][PollNext]_vars /\ PollFairness

====
